---- MODULE Spec2Model ----
(***************************************************************************)
(* A model of the mooncats document-tree builder: the location helpers of  *)
(* location.rs, the workspace of workspace.rs, the item parser and the     *)
(* passes of doctree.rs and passes/*.rs, and the tree builder build_tree.  *)
(*                                                                         *)
(* Text is modelled as a sequence of one-character strings, <<"a",".","b">>*)
(* for "a.b", so that splitting, prefixes and the byte order of Rust's     *)
(* String comparison are computed, not assumed.                            *)
(***************************************************************************)
EXTENDS Integers, Sequences, FiniteSets, TLC

VARIABLES
    pc,          \* position of the running operation
    root,        \* the workspace root identifier
    meta_files,  \* build_docs / build_tree: the Vec<MetaFile> handed to build_tree
    by_depth,    \* build_tree: the sorted sequence still to be placed
    tree,        \* build_tree: the DocTree, a set of nodes [pos, file]
    dropped,     \* build_tree: candidates for which no node matched (observer)
    files,       \* Workspace.files: file identifier -> SourceFile
    loaded,      \* the definitions handed to Workspace::load so far (observer)
    iter_result, \* what each iteration of the workspace gave, in order
    source_files,\* build_docs: the source files the loop has still to process
    building,    \* build_docs: the MetaFile of the file being processed
    next_def,    \* build_docs: the definition the loop of the running pass is at
    result,      \* build_docs: what it returned, None while it runs
    parse_input, \* the argument of the call of a parser or of a pass on one definition
    parsed       \* what a parser, or the second run of a pass, returned, None before the call

treeVars == <<meta_files, by_depth, tree, dropped>>
wsVars == <<files, loaded, iter_result>>
docVars == <<source_files, building, next_def, result>>
parseVars == <<parse_input, parsed>>

----------------------------------------------------------------------------
(* Bounds *)

\* Largest number of files handed to build_tree.
MaxFiles == 3
\* Largest number of path segments of a file below the workspace root.
MaxDepth == 2
\* Largest number of defines handed to Workspace::load, over all definitions
\* of all calls.
MaxDefines == 3
\* Largest number of extends entries of a define handed to DocItem::parse.
MaxExtends == 2
\* Largest number of fields of a class definition handed to DocItem::parse.
MaxFields == 2
\* Largest number of definitions in the source files handed to build_docs.
MaxDefinitions == 3
\* Largest number of arguments of a function handed to Function::parse.
MaxArgs == 2
\* Largest length of a file name handed to file_stem and extension.
MaxNameLen == 3
\* Largest number of definitions of the file whose passes are reordered.
MaxOrderDefinitions == 4
\* Largest number of defines of the definition whose head is parsed.
MaxSites == 2
\* Largest line of a packed Position.
MaxLine == 4
\* Largest line and largest character of the Positions of a Range.
MaxCoord == 1

----------------------------------------------------------------------------
(* Text *)

EmptyStr == <<>>

\* The byte value of a character, for Rust's String ordering.
CharOrd(c) ==
    CASE c = " " -> 32
      [] c = "(" -> 40
      [] c = ")" -> 41
      [] c = "." -> 46
      [] c = "/" -> 47
      [] c = "a" -> 97
      [] c = "b" -> 98
      [] c = "c" -> 99
      [] c = "d" -> 100
      [] c = "e" -> 101
      [] c = "f" -> 102
      [] c = "h" -> 104
      [] c = "l" -> 108
      [] c = "m" -> 109
      [] c = "o" -> 111
      [] c = "s" -> 115
      [] c = "t" -> 116
      [] OTHER -> 120

\* s < t in the lexicographic byte order of str::cmp.
RECURSIVE StrLess(_, _)
StrLess(s, t) ==
    IF t = <<>> THEN FALSE
    ELSE IF s = <<>> THEN TRUE
    ELSE IF CharOrd(Head(s)) # CharOrd(Head(t)) THEN CharOrd(Head(s)) < CharOrd(Head(t))
    ELSE StrLess(Tail(s), Tail(t))

\* str::starts_with
StartsWith(s, p) ==
    /\ Len(p) <= Len(s)
    /\ SubSeq(s, 1, Len(p)) = p

\* The positions of character c in s.
IndexesOf(s, c) == {i \in DOMAIN s : s[i] = c}

MaxOf(S) == CHOOSE x \in S : \A y \in S : y <= x
MinOf(S) == CHOOSE x \in S : \A y \in S : x <= y

\* name.rsplitn(2, "."): the pieces in the order the iterator yields them,
\* the piece after the last "." first.
rsplitn2(s, c) ==
    IF IndexesOf(s, c) = {} THEN << s >>
    ELSE LET k == MaxOf(IndexesOf(s, c))
         IN  << SubSeq(s, k + 1, Len(s)), SubSeq(s, 1, k - 1) >>

\* name.splitn(2, "."): the piece before the first "." first.
splitn2(s, c) ==
    IF IndexesOf(s, c) = {} THEN << s >>
    ELSE LET k == MinOf(IndexesOf(s, c))
         IN  << SubSeq(s, 1, k - 1), SubSeq(s, k + 1, Len(s)) >>

----------------------------------------------------------------------------
(* File identifiers: [host, path], path the sequence of path segments.     *)

\* Url::path(): "/" followed by the segments joined with "/".
RECURSIVE PathStr(_)
PathStr(segs) ==
    IF segs = <<>> THEN <<>>
    ELSE <<"/">> \o Head(segs) \o PathStr(Tail(segs))

\* self.0.path().starts_with(base.0.path())
starts_with_path(uri, base) == StartsWith(PathStr(uri.path), PathStr(base.path))

\* The last path segment.
file_name(uri) == uri.path[Len(uri.path)]

\* rsplitn yields the extension first, and the tuple is bound as (stem, ext).
split_file_at_dot(uri) ==
    LET name   == file_name(uri)
        pieces == rsplitn2(name, ".")
    IN  IF Len(pieces) = 2 THEN << pieces[1], pieces[2] >>
        ELSE << name, EmptyStr >>

file_stem(uri) == split_file_at_dot(uri)[1]

extension(uri) == split_file_at_dot(uri)[2]

\* The path segments before the file name.
DirSegments(uri) == SubSeq(uri.path, 1, Len(uri.path) - 1)

\* The number of path segments, the file name not counted.
depth(uri) == Len(uri.path) - 1

\* The number of path segments of uri below base (1 for a direct child).
relative_depth(uri, base) == Len(uri.path) - Len(base.path)

\* The name of the directory holding the file, None when there is none.
dirname(uri) ==
    IF Len(uri.path) >= 2 THEN [some |-> TRUE, val |-> uri.path[Len(uri.path) - 1]]
    ELSE [some |-> FALSE, val |-> EmptyStr]

unwrap_or_default(opt) == IF opt.some THEN opt.val ELSE EmptyStr

----------------------------------------------------------------------------
(* The universe of inputs *)

\* Directory names: "a", "b".
DirNames == { <<"a">>, <<"b">> }

\* File names: "a", "a.a", "b.a".
FileNames == { <<"a">>, <<"a", ".", "a">>, <<"b", ".", "a">> }

\* The workspace root, file:///c/c.
RootUri == [host |-> "", path |-> << <<"c">>, <<"c">> >>]

\* All sequences over S of length lo..hi.
SeqsOf(S, lo, hi) == UNION { [1..n -> S] : n \in lo..hi }

IsInjective(s) == \A i, j \in DOMAIN s : s[i] = s[j] => i = j

\* The files below the root, at most MaxDepth segments below it.
FilesUnder(base) ==
    { [host |-> base.host, path |-> base.path \o d \o << f >>] :
        d \in SeqsOf(DirNames, 0, MaxDepth - 1), f \in FileNames }

----------------------------------------------------------------------------
(* MetaFile and DocTree *)

EmptyMap == <<>>

\* MetaFile::new: no items; the children are the nodes below it in the tree.
MetaFile_new(uri) == [uri |-> uri, items |-> EmptyMap]

\* DocTree::new
DocTree_new == {}

\* The nodes directly below the node at position p (p = <<>>: the top level).
ChildrenOf(t, p) ==
    { n \in t : Len(n.pos) = Len(p) + 1 /\ SubSeq(n.pos, 1, Len(p)) = p }

\* Vec::push of a MetaFile onto the children of the node at p.
PushChild(p, t, mf) == [pos |-> Append(p, Cardinality(ChildrenOf(t, p)) + 1), file |-> mf]

\* DocTree::add_item
add_item(t, mf) == t \cup { PushChild(<<>>, t, mf) }

\* The closure build_tree hands to for_each_mut: whether it pushes onto `file`.
ClosureMatches(file, meta_file) ==
    /\ depth(file.uri) = depth(meta_file.uri) - 1
    /\ file_stem(file.uri) = unwrap_or_default(dirname(meta_file.uri))

\* A variant that keeps a candidate no node matches, as a top-level node.
for_each_mut_keep(t, meta_file) ==
    IF \E m \in t : ClosureMatches(m.file, meta_file)
    THEN t \cup { PushChild(n.pos, t, meta_file) : n \in { m \in t : ClosureMatches(m.file, meta_file) } }
    ELSE add_item(t, meta_file)

\* for_each_mut visits every node of the tree, children before their parent,
\* and runs the closure on each: every matching node gets its own clone.  A
\* clone is pushed below a node after that node's children were visited, and
\* the candidate has no children, so the result is the union of the pushes.
for_each_mut(t, meta_file) ==
    t \cup { PushChild(n.pos, t, meta_file) : n \in { m \in t : ClosureMatches(m.file, meta_file) } }

\* The comparator of sorted_by: relative depth, then file name.
TreeLess(a, b, base) ==
    \/ relative_depth(a.uri, base) < relative_depth(b.uri, base)
    \/ /\ relative_depth(a.uri, base) = relative_depth(b.uri, base)
       /\ StrLess(file_name(a.uri), file_name(b.uri))

\* sorted_by is a stable sort: an element goes behind the elements before it
\* in the input that do not compare greater.
RECURSIVE SortByDepth(_, _)
SortByDepth(mfs, base) ==
    IF mfs = <<>> THEN <<>>
    ELSE LET rest == SortByDepth(SubSeq(mfs, 1, Len(mfs) - 1), base)
             x    == mfs[Len(mfs)]
             k    == Cardinality({ i \in DOMAIN rest : ~TreeLess(x, rest[i], base) })
         IN  SubSeq(rest, 1, k) \o << x >> \o SubSeq(rest, k + 1, Len(rest))

\* A variant that tests the absolute depth of the file.
TreeStepAbsoluteDepth(t, meta_file, base) ==
    IF depth(meta_file.uri) = 1
    THEN add_item(t, meta_file)
    ELSE for_each_mut(t, meta_file)

\* One iteration of the loop of build_tree.
TreeStep(t, meta_file, base) ==
    IF relative_depth(meta_file.uri, base) = 1
    THEN add_item(t, meta_file)
    ELSE for_each_mut(t, meta_file)

RECURSIVE TreeLoop(_, _, _)
TreeLoop(t, mfs, base) ==
    IF mfs = <<>> THEN t
    ELSE TreeLoop(TreeStep(t, Head(mfs), base), Tail(mfs), base)

build_tree(base, mfs) == TreeLoop(DocTree_new, SortByDepth(mfs, base), base)

\* A candidate that is not top-level and that the closure matches with no
\* node of the tree built so far.
NoMatch(t, meta_file, base) ==
    /\ relative_depth(meta_file.uri, base) # 1
    /\ ~\E n \in t : ClosureMatches(n.file, meta_file)

----------------------------------------------------------------------------
(* build_tree, one loop iteration at a time *)

\* let by_depth = meta_files.into_iter().sorted_by(..); let mut tree = DocTree::new();
TreeSort ==
    /\ pc = "build_tree"
    /\ by_depth' = SortByDepth(meta_files, root)
    /\ tree' = DocTree_new
    /\ pc' = "place"
    /\ UNCHANGED <<root, meta_files, dropped, wsVars, docVars, parseVars>>

\* for meta_file in by_depth { .. }
TreePlace ==
    /\ pc = "place"
    /\ by_depth # <<>>
    /\ LET meta_file == Head(by_depth)
       IN  /\ tree' = TreeStep(tree, meta_file, root)
           /\ dropped' = IF NoMatch(tree, meta_file, root)
                         THEN dropped \cup {meta_file.uri} ELSE dropped
    /\ by_depth' = Tail(by_depth)
    /\ UNCHANGED <<pc, root, meta_files, wsVars, docVars, parseVars>>

\* the loop is over: build_tree returns the tree
TreeReturn ==
    /\ pc = "place"
    /\ by_depth = <<>>
    /\ pc' = "done"
    /\ UNCHANGED <<root, treeVars, wsVars, docVars, parseVars>>

vars == <<pc, root, treeVars, wsVars, docVars, parseVars>>

\* No tree is being built.
TreeIdle ==
    /\ meta_files = <<>>
    /\ by_depth = <<>>
    /\ tree = DocTree_new
    /\ dropped = {}

\* No workspace is in play.
WsIdle ==
    /\ files = EmptyMap
    /\ loaded = <<>>
    /\ iter_result = <<>>

\* build_docs is not running.
DocsIdle ==
    /\ source_files = <<>>
    /\ building = [some |-> FALSE, val |-> EmptyStr]
    /\ next_def = 1
    /\ result = [some |-> FALSE, val |-> EmptyStr]

\* DocItem::parse is not being called.
ParseIdle ==
    /\ parse_input = [some |-> FALSE, val |-> EmptyStr]
    /\ parsed = [some |-> FALSE, val |-> EmptyStr]

\* build_tree on any Vec of MetaFiles with distinct identifiers below the root.
InitTree ==
    /\ pc = "build_tree"
    /\ root = RootUri
    /\ meta_files \in { [i \in DOMAIN s |-> MetaFile_new(s[i])] :
                          s \in { q \in SeqsOf(FilesUnder(RootUri), 0, MaxFiles) : IsInjective(q) } }
    /\ by_depth = <<>>
    /\ tree = DocTree_new
    /\ dropped = {}
    /\ WsIdle
    /\ DocsIdle
    /\ ParseIdle

NextTree == TreeSort \/ TreePlace \/ TreeReturn

SpecTree == InitTree /\ [][NextTree]_vars

----------------------------------------------------------------------------
(* Workspace (workspace.rs) *)

None == [some |-> FALSE, val |-> EmptyStr]
Some(v) == [some |-> TRUE, val |-> v]
Ok(v) == [ok |-> TRUE, val |-> v]
Err(v) == [ok |-> FALSE, val |-> v]

RangeOf(s) == { s[i] : i \in DOMAIN s }

\* The length of the longest common prefix of two sequences.
CommonPrefixLen(s, t) ==
    MaxOf({ k \in 0..Len(s) : k <= Len(t) /\ SubSeq(s, 1, k) = SubSeq(t, 1, k) })

\* Url::make_relative of the url crate: None only when scheme, host or port
\* differ; otherwise the reference from the directory of base (its path
\* without the last segment) to url, with ".." for every directory of base
\* that url does not share.
make_relative(base, url) ==
    IF base.host # url.host THEN None
    ELSE LET base_dirs == DirSegments(base)
             url_dirs  == DirSegments(url)
             k         == CommonPrefixLen(base_dirs, url_dirs)
             ups       == [i \in 1..(Len(base_dirs) - k) |-> <<".", ".">>]
             rel       == ups \o SubSeq(url_dirs, k + 1, Len(url_dirs))
         IN  IF rel # <<>> \/ file_name(base) # file_name(url)
             THEN Some(Append(rel, file_name(url)))
             ELSE Some(rel)

\* Url::parse of a reference: without a scheme it is
\* Err(RelativeUrlWithoutBase).
Url_parse(reference) ==
    IF reference # <<>> /\ ":" \in RangeOf(Head(reference))
    THEN Ok(reference)
    ELSE Err("relative URL without a base")

\* Workspace::file_depth.  `segments` is a Result, so `segments.iter()`
\* yields one item and the count less one is 0.
file_depth(ws_root, file) ==
    LET rel_url == make_relative(ws_root, file.uri)
    IN  IF ~rel_url.some THEN Err("File not rooted in workspace")
        ELSE IF ~Url_parse(rel_url.val).ok THEN Err("relative URL without a base")
        ELSE Ok(0)

\* The comparator of into_iter: file depth, then file name; it unwraps
\* file_depth of both files.
WsLess(ws_root, a, b) ==
    \/ file_depth(ws_root, a).val < file_depth(ws_root, b).val
    \/ /\ file_depth(ws_root, a).val = file_depth(ws_root, b).val
       /\ StrLess(file_name(a.uri), file_name(b.uri))

RECURSIVE WsSort(_, _)
WsSort(ws_root, fs) ==
    IF fs = <<>> THEN <<>>
    ELSE LET rest == WsSort(ws_root, SubSeq(fs, 1, Len(fs) - 1))
             x    == fs[Len(fs)]
             k    == Cardinality({ i \in DOMAIN rest : ~WsLess(ws_root, x, rest[i]) })
         IN  SubSeq(rest, 1, k) \o << x >> \o SubSeq(rest, k + 1, Len(rest))

\* IntoIterator for &Workspace: a stable sort of files.values(), given in
\* the order the HashMap yields them.  Sorting two or more files compares
\* every file at least once, and the comparator panics on a file whose
\* file_depth is an error.
into_iter(ws_root, values) ==
    IF Len(values) >= 2 /\ \E i \in DOMAIN values : ~file_depth(ws_root, values[i]).ok
    THEN [kind |-> "panic"]
    ELSE [kind |-> "files", files |-> WsSort(ws_root, values)]

\* Itertools::unique: the first occurrence of each element, in order.
RECURSIVE unique(_)
unique(s) ==
    IF s = <<>> THEN <<>>
    ELSE LET r == unique(SubSeq(s, 1, Len(s) - 1))
         IN  IF s[Len(s)] \in RangeOf(r) THEN r ELSE Append(r, s[Len(s)])

\* SourceFile::open; `missing` are the files File::open fails on.
SourceFile_open(uri, missing) ==
    IF uri.host # "" THEN Err("not a valid path")
    ELSE IF uri \in missing THEN Err("io")
    ELSE Ok([uri |-> uri, definitions |-> <<>>, text |-> "text"])

KeepDefinesOf(definition, uri) ==
    SelectSeq(definition.defines, LAMBDA define : define.location.file = uri)

\* SourceFile::add_definition without the filter on the defines.
add_definition_unfiltered(file, definition) ==
    Ok([file EXCEPT !.definitions = Append(@, definition)])

\* SourceFile::add_definition
add_definition(file, definition) ==
    LET kept == KeepDefinesOf(definition, file.uri)
    IN  IF kept = <<>> THEN Err("No defines belong to this file")
        ELSE Ok([file EXCEPT !.definitions = Append(@, [definition EXCEPT !.defines = kept])])

\* The inner loop of Workspace::load, over the files of one definition.
RECURSIVE LoadUris(_, _, _, _, _)
LoadUris(ws_root, fs, doc, uris, missing) ==
    IF uris = <<>> THEN Ok(fs)
    ELSE LET uri == Head(uris)
         IN  IF ~make_relative(ws_root, uri).some
             THEN LoadUris(ws_root, fs, doc, Tail(uris), missing)
             ELSE LET opened == IF uri \in DOMAIN fs THEN Ok(fs[uri])
                                ELSE SourceFile_open(uri, missing)
                  IN  IF ~opened.ok THEN Err(fs)
                      ELSE LET inserted == IF uri \in DOMAIN fs THEN fs
                                           ELSE fs @@ (uri :> opened.val)
                               added    == add_definition(inserted[uri], doc)
                           IN  IF ~added.ok THEN Err(inserted)
                               ELSE LoadUris(ws_root, [inserted EXCEPT ![uri] = added.val],
                                             doc, Tail(uris), missing)

\* Workspace::load: Ok(files) or, at the first error, Err(files so far).
RECURSIVE load(_, _, _, _)
load(ws_root, fs, docs, missing) ==
    IF docs = <<>> THEN Ok(fs)
    ELSE LET doc  == Head(docs)
             uris == unique([i \in DOMAIN doc.defines |-> doc.defines[i].location.file])
             one  == LoadUris(ws_root, fs, doc, uris, missing)
         IN  IF ~one.ok THEN one
             ELSE load(ws_root, one.val, Tail(docs), missing)

\* The file identifiers the loaded definitions name: two files below the
\* root, one beside the root, one on another host.
WsUris ==
    { [host |-> "", path |-> RootUri.path \o << <<"a">> >>],
      [host |-> "", path |-> RootUri.path \o << <<"a">>, <<"a">> >>],
      [host |-> "", path |-> << <<"c">>, <<"a">> >>],
      [host |-> "b", path |-> RootUri.path \o << <<"a">> >>] }

\* A definition with one define per entry of `where`; a define's range is
\* its place in the source, so the defines of a definition differ.
WsDefinition(where) ==
    [name |-> <<"a">>, definition_type |-> "variable", rawdesc |-> None,
     defines |-> [i \in DOMAIN where |->
                    [define_type |-> "setglobal",
                     location |-> [file |-> where[i], range |-> i],
                     extends |-> <<>>]],
     fields |-> <<>>]

\* The batches of definitions with at most n defines in all.
RECURSIVE Batches(_)
Batches(n) ==
    { <<>> } \cup
    UNION { { << WsDefinition(w) >> \o b : b \in Batches(n - Len(w)) } :
              w \in SeqsOf(WsUris, 1, n) }

RECURSIVE CountDefines(_)
CountDefines(docs) ==
    IF docs = <<>> THEN 0 ELSE Len(Head(docs).defines) + CountDefines(Tail(docs))

\* Workspace::new
InitWorkspace ==
    /\ pc = "workspace"
    /\ root = RootUri
    /\ files = EmptyMap
    /\ loaded = <<>>
    /\ iter_result = <<>>
    /\ TreeIdle
    /\ DocsIdle
    /\ ParseIdle

\* workspace.load(docs)
Load ==
    /\ pc = "workspace"
    /\ \E docs \in Batches(MaxDefines - CountDefines(loaded)) \ { <<>> } :
       \E missing \in {{}} \cup { {u} : u \in WsUris } :
           LET res == load(root, files, docs, missing)
           IN  /\ files' = res.val
               /\ loaded' = loaded \o docs
               /\ pc' = IF res.ok THEN "workspace" ELSE "load_failed"
    /\ UNCHANGED <<root, iter_result, treeVars, docVars, parseVars>>

\* files.values(): the files in any order the HashMap may yield them.
HashOrders(fs) ==
    { [i \in DOMAIN o |-> fs[o[i]]] :
        o \in { q \in [1..Cardinality(DOMAIN fs) -> DOMAIN fs] : IsInjective(q) } }

\* (&workspace).into_iter()
Iterate ==
    /\ pc = "workspace"
    /\ \E values \in HashOrders(files) :
           iter_result' = Append(iter_result, into_iter(root, values))
    /\ pc' = "iterated"
    /\ UNCHANGED <<root, files, loaded, treeVars, docVars, parseVars>>

\* (&workspace).into_iter() once more, on the same files
IterateAgain ==
    /\ pc = "iterated"
    /\ \E values \in HashOrders(files) :
           iter_result' = Append(iter_result, into_iter(root, values))
    /\ pc' = "iterated_again"
    /\ UNCHANGED <<root, files, loaded, treeVars, docVars, parseVars>>

NextWorkspace == Load \/ Iterate \/ IterateAgain

SpecWorkspace == InitWorkspace /\ [][NextWorkspace]_vars

----------------------------------------------------------------------------
(* The item parser (doctree.rs).  A raw definition is                      *)
(* [name, definition_type, rawdesc, defines, fields]; defines.head is the  *)
(* first define, [define_type, location, extends]; an extends entry is     *)
(* [extends_type, view, args, returns, rawdesc].                           *)

DefineTypes ==
    { "doc.alias", "doc.class", "doc.enum", "doc.field", "doc.type", "tablefield",
      "setglobal", "setfield", "setmethod", "setindex" }

ExtendsTypes ==
    { "doc.type", "doc.extends.name", "table", "integer", "nil", "number",
      "string", "binary", "function" }

PrimitiveTypes == { "binary", "integer", "nil", "number", "string" }

\* definition.defines.head
head(definition) == Head(definition.defines)

\* Vec::first
first(s) == IF s = <<>> THEN None ELSE Some(s[1])

\* HashMap::insert
insert(m, k, v) == [x \in DOMAIN m \cup {k} |-> IF x = k THEN v ELSE m[x]]

\* HashMap::remove of every key of ks
remove(m, ks) == [x \in DOMAIN m \ ks |-> m[x]]

\* Iterator::collect::<Result<Vec<_>>>: the first Err, or all the values.
RECURSIVE collect(_)
collect(rs) ==
    IF rs = <<>> THEN Ok(<<>>)
    ELSE IF ~Head(rs).ok THEN Head(rs)
    ELSE LET rest == collect(Tail(rs))
         IN  IF rest.ok THEN Ok(<< Head(rs).val >> \o rest.val) ELSE rest

\* The text "(method) ".
MethodPrefix == <<"(", "m", "e", "t", "h", "o", "d", ")", " ">>

\* A strip_prefix that removes the prefix as often as it is repeated.
RECURSIVE strip_prefix_repeated(_, _)
strip_prefix_repeated(s, p) ==
    IF ~StartsWith(s, p) THEN None
    ELSE LET more == strip_prefix_repeated(SubSeq(s, Len(p) + 1, Len(s)), p)
         IN  IF more.some THEN more ELSE Some(SubSeq(s, Len(p) + 1, Len(s)))

\* str::strip_prefix
strip_prefix(s, p) == IF StartsWith(s, p) THEN Some(SubSeq(s, Len(p) + 1, Len(s))) ELSE None

\* Argument::parse
Argument_parse(arg) ==
    LET arg_type == CASE arg.arg_type = "doc.type" -> arg.view
                      [] arg.arg_type = "local"    -> arg.view
                      [] arg.arg_type = "self"     -> <<"s", "e", "l", "f">>
                      [] arg.arg_type = "..."      -> <<".", ".", ".">>
    IN  Ok([name |-> arg.name, description |-> arg.rawdesc, arg_type |-> arg_type])

\* Return::parse
Return_parse(ret) ==
    Ok([name |-> ret.name, description |-> ret.rawdesc, return_type |-> ret.view])

\* Function::parse
Function_parse(extends) ==
    IF extends.extends_type # "function" THEN Err("ensure extends_type == Function")
    ELSE LET arguments == collect([i \in DOMAIN extends.args |-> Argument_parse(extends.args[i])])
             returns   == collect([i \in DOMAIN extends.returns |-> Return_parse(extends.returns[i])])
             stripped  == strip_prefix(extends.view, MethodPrefix)
         IN  IF ~arguments.ok THEN arguments
             ELSE IF ~returns.ok THEN returns
             ELSE Ok([description |-> extends.rawdesc,
                      view |-> IF stripped.some THEN stripped.val ELSE extends.view,
                      arguments |-> arguments.val,
                      returns |-> returns.val])

\* NamedFunction::parse
NamedFunction_parse(field) ==
    IF field.field_type # "setmethod" THEN Err("ensure field_type == SetMethod")
    ELSE IF field.extends.extends_type # "function" THEN Err("ensure extends_type == Function")
    ELSE LET function == Function_parse(field.extends)
         IN  IF ~function.ok THEN function
             ELSE Ok([name |-> field.name, function |-> function.val])

\* Field::parse
Field_parse(field) ==
    IF ~(field.field_type = "doc.field" \/ field.field_type = "setfield")
    THEN Err("ensure field_type == DocField || SetField")
    ELSE Ok([name |-> field.name, description |-> field.rawdesc, lua_type |-> field.extends.view])

\* Option<String>::cmp: None before Some, then the text.
OptLess(a, b) == IF a.some # b.some THEN b.some ELSE a.some /\ StrLess(a.val, b.val)

\* The fields of a Vec<Argument> in the order #[derive(Ord)] compares them;
\* an element starts with Some(""), the end of the Vec is None, so that a
\* Vec sorts before the Vecs it is a prefix of.
RECURSIVE ArgumentsKey(_)
ArgumentsKey(args) ==
    IF args = <<>> THEN << None >>
    ELSE << Some(EmptyStr), Head(args).name, Head(args).description, Some(Head(args).arg_type) >>
         \o ArgumentsKey(Tail(args))

RECURSIVE ReturnsKey(_)
ReturnsKey(rets) ==
    IF rets = <<>> THEN << None >>
    ELSE << Some(EmptyStr), Head(rets).name, Some(Head(rets).return_type), Head(rets).description >>
         \o ReturnsKey(Tail(rets))

\* The fields of a NamedFunction in the order #[derive(Ord)] compares them.
NamedFunctionKey(nf) ==
    << Some(nf.name), nf.function.description, Some(nf.function.view) >>
    \o ArgumentsKey(nf.function.arguments) \o ReturnsKey(nf.function.returns)

\* Lexicographic comparison of two keys.
RECURSIVE KeyLess(_, _)
KeyLess(k, l) ==
    IF k = <<>> \/ l = <<>> THEN FALSE
    ELSE IF Head(k) = Head(l) THEN KeyLess(Tail(k), Tail(l))
    ELSE OptLess(Head(k), Head(l))

\* A merge that stops as soon as one of the two lists is exhausted.
RECURSIVE merge_until_one_ends(_, _)
merge_until_one_ends(xs, ys) ==
    IF xs = <<>> \/ ys = <<>> THEN <<>>
    ELSE IF ~KeyLess(NamedFunctionKey(Head(ys)), NamedFunctionKey(Head(xs)))
         THEN << Head(xs) >> \o merge_until_one_ends(Tail(xs), ys)
         ELSE << Head(ys) >> \o merge_until_one_ends(xs, Tail(ys))

\* Itertools::merge: the smaller head first, the left one on a tie.
RECURSIVE merge(_, _)
merge(xs, ys) ==
    IF xs = <<>> THEN ys
    ELSE IF ys = <<>> THEN xs
    ELSE IF ~KeyLess(NamedFunctionKey(Head(ys)), NamedFunctionKey(Head(xs)))
         THEN << Head(xs) >> \o merge(Tail(xs), ys)
         ELSE << Head(ys) >> \o merge(xs, Tail(ys))

\* A Class::parse that keeps a function-typed doc.field among the fields.
Class_parse_keeping_doc_fields(definition) ==
    IF definition.definition_type # "type" THEN Err("ensure definition_type == Type")
    ELSE IF head(definition).define_type # "doc.class" THEN Err("ensure define_type == DocClass")
    ELSE LET fields    == collect(LET kept == SelectSeq(definition.fields, LAMBDA f :
                                        \/ f.field_type = "doc.field"
                                        \/ (f.field_type = "setfield"
                                              /\ f.extends.extends_type # "function"))
                                  IN  [i \in DOMAIN kept |-> Field_parse(kept[i])])
             functions == collect(LET kept == SelectSeq(definition.fields, LAMBDA f :
                                        /\ f.field_type = "setfield"
                                        /\ f.extends.extends_type = "function")
                                  IN  [i \in DOMAIN kept |->
                                         LET function == Function_parse(kept[i].extends)
                                         IN  IF ~function.ok THEN function
                                             ELSE Ok([name |-> kept[i].name, function |-> function.val])])
             methods   == collect(LET kept == SelectSeq(definition.fields, LAMBDA f :
                                        f.field_type = "setmethod")
                                  IN  [i \in DOMAIN kept |-> NamedFunction_parse(kept[i])])
         IN  IF ~fields.ok THEN fields
             ELSE IF ~functions.ok THEN functions
             ELSE IF ~methods.ok THEN methods
             ELSE Ok([kind |-> "Class", fields |-> fields.val,
                      methods |-> merge(functions.val, methods.val)])

\* Class::parse
Class_parse(definition) ==
    IF definition.definition_type # "type" THEN Err("ensure definition_type == Type")
    ELSE IF head(definition).define_type # "doc.class" THEN Err("ensure define_type == DocClass")
    ELSE LET fields    == collect(LET kept == SelectSeq(definition.fields, LAMBDA f :
                                        /\ (f.field_type = "doc.field" \/ f.field_type = "setfield")
                                        /\ f.extends.extends_type # "function")
                                  IN  [i \in DOMAIN kept |-> Field_parse(kept[i])])
             functions == collect(LET kept == SelectSeq(definition.fields, LAMBDA f :
                                        /\ f.field_type = "setfield"
                                        /\ f.extends.extends_type = "function")
                                  IN  [i \in DOMAIN kept |->
                                         LET function == Function_parse(kept[i].extends)
                                         IN  IF ~function.ok THEN function
                                             ELSE Ok([name |-> kept[i].name, function |-> function.val])])
             methods   == collect(LET kept == SelectSeq(definition.fields, LAMBDA f :
                                        f.field_type = "setmethod")
                                  IN  [i \in DOMAIN kept |-> NamedFunction_parse(kept[i])])
         IN  IF ~fields.ok THEN fields
             ELSE IF ~functions.ok THEN functions
             ELSE IF ~methods.ok THEN methods
             ELSE Ok([kind |-> "Class", fields |-> fields.val,
                      methods |-> merge(functions.val, methods.val)])

\* Table::parse, reading the last extends entry instead of the first.
Table_parse_last_extends(definition) ==
    IF head(definition).define_type # "setglobal" THEN Err("ensure define_type == SetGlobal")
    ELSE LET all == head(definition).extends
         IN  IF all = <<>> THEN Err("expected extends for setglobal")
             ELSE IF all[Len(all)].extends_type # "table" THEN Err("ensure extends_type == Table")
             ELSE Ok([kind |-> "Table", view |-> all[Len(all)].view,
                      fields |-> EmptyMap, functions |-> EmptyMap])

\* Table::parse
Table_parse(definition) ==
    IF head(definition).define_type # "setglobal" THEN Err("ensure define_type == SetGlobal")
    ELSE LET extends == first(head(definition).extends)
         IN  IF ~extends.some THEN Err("expected extends for setglobal")
             ELSE IF extends.val.extends_type # "table" THEN Err("ensure extends_type == Table")
             ELSE Ok([kind |-> "Table", view |-> extends.val.view,
                      fields |-> EmptyMap, functions |-> EmptyMap])

\* TypeAlias::parse, refusing a definition with more than one extends entry.
TypeAlias_parse_exactly_one(definition) ==
    LET define == head(definition)
    IN  IF define.define_type # "doc.alias" THEN Err("ensure define_type == DocAlias")
        ELSE IF Len(define.extends) # 1 THEN Err("expected extends for type alias")
        ELSE IF define.extends[1].extends_type # "doc.type" THEN Err("ensure extends_type == DocType")
        ELSE Ok([kind |-> "TypeAlias", aliased_type |-> define.extends[1].view])

\* TypeAlias::parse
TypeAlias_parse(definition) ==
    LET define  == head(definition)
        extends == first(define.extends)
    IN  IF define.define_type # "doc.alias" THEN Err("ensure define_type == DocAlias")
        ELSE IF ~extends.some THEN Err("expected extends for type alias")
        ELSE IF extends.val.extends_type # "doc.type" THEN Err("ensure extends_type == DocType")
        ELSE Ok([kind |-> "TypeAlias", aliased_type |-> extends.val.view])

\* Enum::parse
Enum_parse(definition) ==
    IF head(definition).define_type # "doc.enum" THEN Err("ensure define_type == DocEnum")
    ELSE Ok([kind |-> "Enum", fields |-> EmptyMap])

\* Global::parse
Global_parse(definition) ==
    IF head(definition).define_type # "setglobal" THEN Err("ensure define_type == SetGlobal")
    ELSE LET extends == first(head(definition).extends)
         IN  IF ~extends.some THEN Err("expected extends for setglobal")
             ELSE IF ~(extends.val.extends_type \in PrimitiveTypes
                       \/ extends.val.extends_type = "function")
                  THEN Err("ensure extends_primitive || extends_type == Function")
             ELSE IF extends.val.extends_type \in PrimitiveTypes
                  THEN Ok([kind |-> "Global",
                           global |-> [kind |-> "Primitive", primitive_type |-> extends.val.view]])
             ELSE LET function == Function_parse(extends.val)
                  IN  IF ~function.ok THEN function
                      ELSE Ok([kind |-> "Global",
                               global |-> [kind |-> "Function", function |-> function.val]])

\* The match of DocItem::parse: Ok(Some(inner)), Ok(None) or the error.
DocItem_inner(definition) ==
    LET define_type == head(definition).define_type
        map_some(r) == IF r.ok THEN Ok(Some(r.val)) ELSE r
    IN  CASE define_type = "doc.alias" -> map_some(TypeAlias_parse(definition))
          [] define_type = "doc.class" -> map_some(Class_parse(definition))
          [] define_type = "doc.enum"  -> map_some(Enum_parse(definition))
          [] define_type = "setglobal" ->
                LET extends == first(head(definition).extends)
                IN  IF ~extends.some THEN Err("expected extends for setglobal")
                    ELSE IF extends.val.extends_type \in {"doc.type", "doc.extends.name"}
                         THEN Err("unexpected doc extend for setglobal")
                    ELSE IF extends.val.extends_type = "table"
                         THEN map_some(Table_parse(definition))
                    ELSE map_some(Global_parse(definition))
          [] OTHER -> Ok(None)

\* The end of DocItem::parse: Ok(inner.map(|inner| DocItem { .. }))
DocItem_of(definition, inner) ==
    IF ~inner.ok THEN inner
    ELSE IF ~inner.val.some THEN Ok(None)
    ELSE Ok(Some([name |-> definition.name,
                  description |-> definition.rawdesc,
                  range |-> head(definition).location.range,
                  inner |-> inner.val.val]))

\* DocItem::parse
DocItem_parse(definition) == DocItem_of(definition, DocItem_inner(definition))

----------------------------------------------------------------------------------------------------------------------------------------
(* DocItem::parse on one definition *)

\* An extends entry that is not a function.
Extends(extends_type, view) ==
    [extends_type |-> extends_type, view |-> view, args |-> <<>>, returns |-> <<>>,
     rawdesc |-> None]

\* A function argument of the raw definitions.
FuncArg(arg_type, view) ==
    [arg_type |-> arg_type, view |-> view, name |-> Some(view), rawdesc |-> None]

\* A function return of the raw definitions.
FuncReturn(view) == [name |-> None, view |-> view, rawdesc |-> None]

\* The function-typed extends entries: a method, a function with typed
\* arguments and a return, a function of nothing.
FunctionExtends ==
    { [extends_type |-> "function", view |-> MethodPrefix \o <<"a">>,
       args |-> << FuncArg("self", <<"a">>), FuncArg("...", <<"b">>) >>,
       returns |-> <<>>, rawdesc |-> None],
      [extends_type |-> "function", view |-> <<"a">>,
       args |-> << FuncArg("doc.type", <<"a">>), FuncArg("local", <<"b">>) >>,
       returns |-> << FuncReturn(<<"a">>) >>, rawdesc |-> Some(<<"a">>)],
      [extends_type |-> "function", view |-> <<"b">>,
       args |-> <<>>, returns |-> <<>>, rawdesc |-> None] }

\* The extends entries of the definitions: every tag, and two views for the
\* tags whose view is kept.
ExtendsEntries ==
    { Extends(t, <<"a">>) : t \in ExtendsTypes \ {"function"} }
    \cup { Extends(t, <<"b">>) : t \in {"doc.type", "table", "integer"} }
    \cup FunctionExtends

\* A field of a definition's `fields`.
JsonField(name, field_type, extends) ==
    [name |-> name, field_type |-> field_type, rawdesc |-> None, extends |-> extends]

\* The entries of a class definition's `fields`.
ClassFields ==
    { JsonField(<<"a">>, "doc.field", Extends("integer", <<"a">>)),
      JsonField(<<"a">>, "setfield", Extends("string", <<"b">>)),
      JsonField(<<"b">>, "setmethod", Extends("integer", <<"a">>)),
      JsonField(<<"b">>, "doc.field",
                [extends_type |-> "function", view |-> <<"b">>, args |-> <<>>,
                 returns |-> <<>>, rawdesc |-> None]) }
    \cup { JsonField(<<"b">>, "setfield", e) : e \in FunctionExtends }
    \cup { JsonField(<<"a">>, "setmethod", e) : e \in FunctionExtends }

\* A definition with one define, located in the file uri.
Definition(name, definition_type, define_type, extends, fields, uri) ==
    [name |-> name, definition_type |-> definition_type, rawdesc |-> None,
     defines |-> << [define_type |-> define_type,
                     location |-> [file |-> uri, range |-> define_type],
                     extends |-> extends] >>,
     fields |-> fields]

\* The file the parsed definitions are located in.
ParseUri == [host |-> "", path |-> RootUri.path \o << <<"a">> >>]

\* The definitions handed to DocItem::parse: every define kind with every
\* list of extends entries, and the classes with every list of fields.
ParseDefinitions ==
    { Definition(<<"a">>, dt, k, e, <<>>, ParseUri) :
        dt \in {"type", "variable"}, k \in DefineTypes,
        e \in SeqsOf(ExtendsEntries, 0, MaxExtends) }
    \cup
    { Definition(<<"a">>, dt, "doc.class", <<>>, f, ParseUri) :
        dt \in {"type", "variable"}, f \in SeqsOf(ClassFields, 0, MaxFields) }

InitParse ==
    /\ pc = "parse"
    /\ root = RootUri
    /\ parse_input \in ParseDefinitions
    /\ parsed = None
    /\ TreeIdle
    /\ WsIdle
    /\ DocsIdle

\* DocItem::parse(&definition)
Parse ==
    /\ pc = "parse"
    /\ parsed' = DocItem_parse(parse_input)
    /\ pc' = "parsed"
    /\ UNCHANGED <<root, parse_input, treeVars, wsVars, docVars>>

NextParse == Parse

SpecParse == InitParse /\ [][NextParse]_vars

----------------------------------------------------------------------------------------------------------------------------------------
(* The passes (passes/*.rs) *)

\* An add_item that keeps the item a name already has.
MetaFile_add_item_keep_first(mf, item) ==
    IF item.name \in DOMAIN mf.items THEN mf
    ELSE [mf EXCEPT !.items = insert(@, item.name, item)]

\* MetaFile::add_item
MetaFile_add_item(mf, item) == [mf EXCEPT !.items = insert(@, item.name, item)]

\* The body of the loop of parse_items on one definition: the MetaFile
\* after it, or the error `?` returns.
add_parsed(mf, item) ==
    IF ~item.ok THEN item
    ELSE IF item.val.some THEN Ok(MetaFile_add_item(mf, item.val.val))
    ELSE Ok(mf)

parse_item(mf, definition) == add_parsed(mf, DocItem_parse(definition))

\* name.splitn(2, ".").collect_tuple(): a pair, or None without a "."
collect_tuple(pieces) == IF Len(pieces) = 2 THEN Some(pieces) ELSE None

\* Table::add_field
Table_add_field(table, field) == [table EXCEPT !.fields = insert(@, field.name, field)]

\* Table::add_function
Table_add_function(table, function) ==
    [table EXCEPT !.functions = insert(@, function.name, function)]

\* Enum::add_field
Enum_add_field(lua_enum, field) == [lua_enum EXCEPT !.fields = insert(@, field.name, field)]

\* A set_field that lets an owner of any kind pass.
set_field_any_owner(mf, definition) ==
    LET extends == first(head(definition).extends)
        names   == collect_tuple(splitn2(definition.name, "."))
    IN  IF ~extends.some THEN Err("Expected an extends for setfield")
        ELSE IF ~names.some THEN Err("Invalid setfield name")
        ELSE LET table_name == names.val[1]
                 field_name == names.val[2]
             IN  IF table_name \notin DOMAIN mf.items THEN Ok(mf)
                 ELSE LET table == mf.items[table_name]
                      IN  CASE table.inner.kind = "Table" ->
                                 IF extends.val.extends_type \in PrimitiveTypes \cup {"table"}
                                 THEN Ok([mf EXCEPT !.items[table_name].inner =
                                            Table_add_field(@, [name |-> field_name,
                                                                description |-> definition.rawdesc,
                                                                lua_type |-> extends.val.view])])
                                 ELSE IF extends.val.extends_type = "function"
                                 THEN LET function == Function_parse(extends.val)
                                      IN  IF ~function.ok THEN function
                                          ELSE Ok([mf EXCEPT !.items[table_name].inner =
                                                     Table_add_function(@, [name |-> field_name,
                                                                            function |-> function.val])])
                                 ELSE Err("Unexpected setfield type")
                            [] table.inner.kind = "Class" -> Ok(mf)
                            [] OTHER -> Ok(mf)

\* A set_field that makes a table of an owner the file does not hold.
set_field_creating_owner(mf, definition) ==
    LET extends == first(head(definition).extends)
        names   == collect_tuple(splitn2(definition.name, "."))
    IN  IF ~extends.some THEN Err("Expected an extends for setfield")
        ELSE IF ~names.some THEN Err("Invalid setfield name")
        ELSE LET table_name == names.val[1]
                 field_name == names.val[2]
             IN  IF table_name \notin DOMAIN mf.items
                 THEN Ok(MetaFile_add_item(mf, [name |-> table_name, description |-> None,
                                                range |-> head(definition).location.range,
                                                inner |-> [kind |-> "Table", view |-> table_name,
                                                           fields |-> EmptyMap,
                                                           functions |-> EmptyMap]]))
                 ELSE LET table == mf.items[table_name]
                      IN  CASE table.inner.kind = "Table" ->
                                 IF extends.val.extends_type \in PrimitiveTypes \cup {"table"}
                                 THEN Ok([mf EXCEPT !.items[table_name].inner =
                                            Table_add_field(@, [name |-> field_name,
                                                                description |-> definition.rawdesc,
                                                                lua_type |-> extends.val.view])])
                                 ELSE IF extends.val.extends_type = "function"
                                 THEN LET function == Function_parse(extends.val)
                                      IN  IF ~function.ok THEN function
                                          ELSE Ok([mf EXCEPT !.items[table_name].inner =
                                                     Table_add_function(@, [name |-> field_name,
                                                                            function |-> function.val])])
                                 ELSE Err("Unexpected setfield type")
                            [] table.inner.kind = "Class" -> Ok(mf)
                            [] OTHER -> Err("Setting field for non-table")

\* What the loop of parse_set_fields does with a SetField or SetIndex
\* definition: the MetaFile after it, or the error.
set_field(mf, definition) ==
    LET extends == first(head(definition).extends)
        names   == collect_tuple(splitn2(definition.name, "."))
    IN  IF ~extends.some THEN Err("Expected an extends for setfield")
        ELSE IF ~names.some THEN Err("Invalid setfield name")
        ELSE LET table_name == names.val[1]
                 field_name == names.val[2]
             IN  IF table_name \notin DOMAIN mf.items THEN Ok(mf)
                 ELSE LET table == mf.items[table_name]
                      IN  CASE table.inner.kind = "Table" ->
                                 IF extends.val.extends_type \in PrimitiveTypes \cup {"table"}
                                 THEN Ok([mf EXCEPT !.items[table_name].inner =
                                            Table_add_field(@, [name |-> field_name,
                                                                description |-> definition.rawdesc,
                                                                lua_type |-> extends.val.view])])
                                 ELSE IF extends.val.extends_type = "function"
                                 THEN LET function == Function_parse(extends.val)
                                      IN  IF ~function.ok THEN function
                                          ELSE Ok([mf EXCEPT !.items[table_name].inner =
                                                     Table_add_function(@, [name |-> field_name,
                                                                            function |-> function.val])])
                                 ELSE Err("Unexpected setfield type")
                            [] table.inner.kind = "Class" -> Ok(mf)
                            [] OTHER -> Err("Setting field for non-table")

\* The body of the loop of parse_set_fields on one definition.
parse_set_field(mf, definition) ==
    IF head(definition).define_type \notin {"setfield", "setindex"} THEN Ok(mf)
    ELSE set_field(mf, definition)

\* A table_field that lets an owner of any kind pass.
table_field_any_owner(mf, definition) ==
    LET names == collect_tuple(splitn2(definition.name, "."))
    IN  IF ~names.some THEN Err("Invalid tablefield name")
        ELSE LET enum_name  == names.val[1]
                 field_name == names.val[2]
             IN  IF enum_name \notin DOMAIN mf.items THEN Ok(mf)
                 ELSE IF mf.items[enum_name].inner.kind = "Enum"
                 THEN Ok([mf EXCEPT !.items[enum_name].inner =
                            Enum_add_field(@, [name |-> field_name,
                                               description |-> definition.rawdesc,
                                               lua_type |-> EmptyStr])])
                 ELSE Ok(mf)

\* A table_field that sets the field of a table as it does that of an enum.
table_field_on_tables(mf, definition) ==
    LET names == collect_tuple(splitn2(definition.name, "."))
    IN  IF ~names.some THEN Err("Invalid tablefield name")
        ELSE LET enum_name  == names.val[1]
                 field_name == names.val[2]
             IN  IF enum_name \notin DOMAIN mf.items THEN Ok(mf)
                 ELSE IF mf.items[enum_name].inner.kind \in {"Enum", "Table"}
                 THEN Ok([mf EXCEPT !.items[enum_name].inner =
                            Enum_add_field(@, [name |-> field_name,
                                               description |-> definition.rawdesc,
                                               lua_type |-> EmptyStr])])
                 ELSE Err("Setting field for non enum")

\* What the loop of parse_table_fields does with a TableField definition.
table_field(mf, definition) ==
    LET names == collect_tuple(splitn2(definition.name, "."))
    IN  IF ~names.some THEN Err("Invalid tablefield name")
        ELSE LET enum_name  == names.val[1]
                 field_name == names.val[2]
             IN  IF enum_name \notin DOMAIN mf.items THEN Ok(mf)
                 ELSE IF mf.items[enum_name].inner.kind = "Enum"
                 THEN Ok([mf EXCEPT !.items[enum_name].inner =
                            Enum_add_field(@, [name |-> field_name,
                                               description |-> definition.rawdesc,
                                               lua_type |-> EmptyStr])])
                 ELSE Err("Setting field for non enum")

\* The body of the loop of parse_table_fields on one definition.
parse_table_field(mf, definition) ==
    IF head(definition).define_type # "tablefield" THEN Ok(mf)
    ELSE table_field(mf, definition)

\* A merge_class_tables that stops at the first match.
merge_class_tables_first_match(mf, source_file) ==
    LET tables   == { k \in DOMAIN mf.items : mf.items[k].inner.kind = "Table" }
        classes  == { k \in DOMAIN mf.items : mf.items[k].inner.kind = "Class" }
        removals == { t \in tables : \E c \in classes :
                        mf.items[t].inner.view = mf.items[c].name }
    IN  Ok([mf EXCEPT !.items = remove(@, IF removals = {} THEN {}
                                              ELSE { CHOOSE t \in removals : TRUE })])

\* A merge_class_tables that keeps the tables that hold a field.
merge_class_tables_empty_only(mf, source_file) ==
    LET tables   == { k \in DOMAIN mf.items : mf.items[k].inner.kind = "Table" }
        classes  == { k \in DOMAIN mf.items : mf.items[k].inner.kind = "Class" }
        removals == { t \in { x \in tables : mf.items[x].inner.fields = EmptyMap } : \E c \in classes :
                        mf.items[t].inner.view = mf.items[c].name }
    IN  Ok([mf EXCEPT !.items = remove(@, removals)])

\* merge_class_tables: every Table whose view is the name of a Class of the
\* file is removed.
merge_class_tables(mf, source_file) ==
    LET tables   == { k \in DOMAIN mf.items : mf.items[k].inner.kind = "Table" }
        classes  == { k \in DOMAIN mf.items : mf.items[k].inner.kind = "Class" }
        removals == { t \in tables : \E c \in classes :
                        mf.items[t].inner.view = mf.items[c].name }
    IN  Ok([mf EXCEPT !.items = remove(@, removals)])

\* parse_items from the definitions ds on: the loop ends at the first error.
RECURSIVE parse_items_from(_, _)
parse_items_from(res, ds) ==
    IF ~res.ok \/ ds = <<>> THEN res
    ELSE parse_items_from(parse_item(res.val, Head(ds)), Tail(ds))

\* parse_items
parse_items(mf, file) == parse_items_from(Ok(mf), file.definitions)

RECURSIVE parse_set_fields_from(_, _)
parse_set_fields_from(res, ds) ==
    IF ~res.ok \/ ds = <<>> THEN res
    ELSE parse_set_fields_from(parse_set_field(res.val, Head(ds)), Tail(ds))

\* parse_set_fields, after a pass that returned res: `?` has returned its error
parse_set_fields(res, file) == parse_set_fields_from(res, file.definitions)

RECURSIVE parse_table_fields_from(_, _)
parse_table_fields_from(res, ds) ==
    IF ~res.ok \/ ds = <<>> THEN res
    ELSE parse_table_fields_from(parse_table_field(res.val, Head(ds)), Tail(ds))

\* parse_table_fields, after a pass that returned res
parse_table_fields(res, file) == parse_table_fields_from(res, file.definitions)

\* merge_class_tables, after a pass that returned res
merge_after(res, file) == IF res.ok THEN merge_class_tables(res.val, file) ELSE res

----------------
(* build_docs, one definition of one pass of one file at a time *)

\* The files of the workspace, in the order its iteration yields them.
DocUris ==
    << [host |-> "", path |-> RootUri.path \o << <<"a">> >>],
       [host |-> "", path |-> RootUri.path \o << <<"a">>, <<"a">> >>] >>

\* The definitions of a source file: a class, a class declared on a
\* variable, a table viewed as the class, a global, an enum, and fields set
\* on "b" (by an integer, by a doc type, without a member name, as an enum
\* value).
DocDefinitions(uri) ==
    { Definition(<<"a">>, "type", "doc.class", <<>>, <<>>, uri),
      Definition(<<"a">>, "variable", "doc.class", <<>>, <<>>, uri),
      Definition(<<"b">>, "variable", "setglobal", << Extends("table", <<"a">>) >>, <<>>, uri),
      Definition(<<"b">>, "variable", "setglobal", << Extends("integer", <<"a">>) >>, <<>>, uri),
      Definition(<<"b">>, "type", "doc.enum", <<>>, <<>>, uri),
      Definition(<<"b", ".", "a">>, "variable", "setfield", << Extends("integer", <<"a">>) >>, <<>>, uri),
      Definition(<<"b", ".", "a">>, "variable", "setindex", << Extends("doc.type", <<"a">>) >>, <<>>, uri),
      Definition(<<"b">>, "variable", "setfield", << Extends("integer", <<"a">>) >>, <<>>, uri),
      Definition(<<"b", ".", "a">>, "type", "tablefield", <<>>, <<>>, uri) }

\* The definition d as the file uri holds it.
Located(d, uri) == [d EXCEPT !.defines[1].location.file = uri]

\* The source files that hold the definitions ds, the first `cut` of them in
\* the first file and the others in the second; a file is opened for a
\* definition located in it, so every file holds at least one.
SourceFiles(ds, cut) ==
    LET file(i, part) == [uri |-> DocUris[i],
                          definitions |-> [j \in DOMAIN part |-> Located(part[j], DocUris[i])],
                          text |-> "text"]
    IN  IF ds = <<>> THEN <<>>
        ELSE IF cut = Len(ds) THEN << file(1, ds) >>
        ELSE << file(1, SubSeq(ds, 1, cut)), file(2, SubSeq(ds, cut + 1, Len(ds))) >>

\* The file the loop of build_docs is at.
source_file == source_files[Len(meta_files) + 1]

\* A `?` that goes on whether the Result is Ok or Err.
Try_ignoring(res, next) == next

\* `?` on the Result of a pass: go on when it is Ok, return when it is Err.
Try(res, next) == IF res.ok THEN next ELSE "failed"

InitDocs ==
    /\ pc = "for"
    /\ root = RootUri
    /\ \E ds \in SeqsOf(DocDefinitions(DocUris[1]), 0, MaxDefinitions) :
       \E cut \in 1..MaxDefinitions :
           /\ ds # <<>> => cut <= Len(ds)
           /\ ds = <<>> => cut = 1
           /\ source_files = SourceFiles(ds, cut)
    /\ building = None
    /\ next_def = 1
    /\ result = None
    /\ TreeIdle
    /\ WsIdle
    /\ ParseIdle

\* for source_file in workspace.into_iter() { let mut meta_file = MetaFile::new(..)
ForSourceFile ==
    /\ pc = "for"
    /\ IF Len(meta_files) = Len(source_files)
       THEN pc' = "build_tree" /\ UNCHANGED building
       ELSE pc' = "parse_items" /\ building' = Some(MetaFile_new(source_file.uri))
    /\ next_def' = 1
    /\ UNCHANGED <<root, source_files, result, treeVars, wsVars, parseVars>>

\* Whether the loop of the running pass has a definition left to visit.
HasDefinition == next_def <= Len(source_file.definitions)

\* What the pass does next: the body of its loop on the definition it is
\* at, or the whole of merge_class_tables, which has no such loop.
RunPass(name) ==
    CASE name = "parse_items" ->
            parse_item(building.val, source_file.definitions[next_def])
      [] name = "parse_set_fields" ->
            parse_set_field(building.val, source_file.definitions[next_def])
      [] name = "parse_table_fields" ->
            parse_table_field(building.val, source_file.definitions[next_def])
      [] name = "merge_class_tables" ->
            merge_class_tables(building.val, source_file)

\* `?` on the Result res of a step of build_docs: the MetaFile is the one
\* the step left when it is Ok, and build_docs returns res when it is Err.
Question(res, next) ==
    /\ pc' = Try(res, next)
    /\ building' = IF res.ok THEN Some(res.val) ELSE building
    /\ result' = IF res.ok THEN result ELSE Some(res)

\* pass(&mut meta_file, source_file)?, one definition of the file at a time:
\* the pass returns Ok(()) after the last one.
PassStep(name, next) ==
    /\ IF ~HasDefinition
       THEN /\ pc' = next
            /\ next_def' = 1
            /\ UNCHANGED <<building, result>>
       ELSE /\ Question(RunPass(name), name)
            /\ next_def' = IF pc' = "failed" THEN next_def ELSE next_def + 1
    /\ UNCHANGED <<root, source_files, treeVars, wsVars, parseVars>>

\* parse_items(&mut meta_file, source_file)?;
ParseItems ==
    /\ pc = "parse_items"
    /\ PassStep("parse_items", "parse_set_fields")

\* parse_set_fields(&mut meta_file, source_file)?;
ParseSetFields ==
    /\ pc = "parse_set_fields"
    /\ PassStep("parse_set_fields", "parse_table_fields")

\* parse_table_fields(&mut meta_file, source_file)?;
ParseTableFields ==
    /\ pc = "parse_table_fields"
    /\ PassStep("parse_table_fields", "merge_class_tables")

\* merge_class_tables(&mut meta_file, source_file)?; meta_files.push(meta_file);
MergeClassTables ==
    /\ pc = "merge_class_tables"
    /\ Question(RunPass("merge_class_tables"), "for")
    /\ meta_files' = IF pc' = "failed" THEN meta_files ELSE Append(meta_files, building'.val)
    /\ UNCHANGED <<root, source_files, next_def, by_depth, tree, dropped, wsVars, parseVars>>

\* Ok(tree)
DocsReturn ==
    /\ pc = "done"
    /\ result' = Some(Ok(tree))
    /\ pc' = "returned"
    /\ UNCHANGED <<root, source_files, building, next_def, treeVars, wsVars, parseVars>>

NextDocs ==
    \/ ForSourceFile
    \/ ParseItems
    \/ ParseSetFields
    \/ ParseTableFields
    \/ MergeClassTables
    \/ TreeSort
    \/ TreePlace
    \/ TreeReturn
    \/ DocsReturn

SpecDocs == InitDocs /\ [][NextDocs]_vars

----------------------------------------------------------------------------
(* Function::parse on one extends entry *)

\* The views of the parsed entries: without the prefix, with it, with it
\* after other text, with it twice, the prefix alone, and the empty view.
FunctionViews ==
    { <<"a">>, MethodPrefix \o <<"a">>, <<"a">> \o MethodPrefix,
      MethodPrefix \o MethodPrefix \o <<"a">>, MethodPrefix, EmptyStr }

\* The argument tags Argument::parse matches on.
ArgTypes == { "doc.type", "local", "self", "..." }

FuncArgs == { FuncArg(t, <<"a">>) : t \in ArgTypes } \cup { FuncArg("doc.type", <<"b">>) }

FuncReturns == { <<>>, << FuncReturn(<<"a">>) >>, << FuncReturn(<<"b">>), FuncReturn(<<"a">>) >> }

\* The extends entries handed to Function::parse.
FunctionInputs ==
    { [extends_type |-> t, view |-> v, args |-> a, returns |-> r, rawdesc |-> None] :
        t \in ExtendsTypes, v \in FunctionViews,
        a \in SeqsOf(FuncArgs, 0, MaxArgs), r \in FuncReturns }

InitFunction ==
    /\ pc = "function_parse"
    /\ root = RootUri
    /\ parse_input \in FunctionInputs
    /\ parsed = None
    /\ TreeIdle
    /\ WsIdle
    /\ DocsIdle

\* Function::parse(&extends)
FunctionParse ==
    /\ pc = "function_parse"
    /\ parsed' = Function_parse(parse_input)
    /\ pc' = "function_parsed"
    /\ UNCHANGED <<root, parse_input, treeVars, wsVars, docVars>>

NextFunction == FunctionParse

SpecFunction == InitFunction /\ [][NextFunction]_vars

----------------------------------------------------------------------------
(* parse_set_fields and parse_table_fields on one definition of a file *)

\* An item of a MetaFile, keyed by its name.
PassItem(name, inner) ==
    [name |-> name, description |-> None, range |-> "range", inner |-> inner]

\* A field and a function a table or an enum holds before the pass.
OldField(name) == [name |-> name, description |-> Some(<<"b">>), lua_type |-> <<"b">>]

OldFunction(name) ==
    [name |-> name,
     function |-> [description |-> None, view |-> <<"b">>, arguments |-> <<>>, returns |-> <<>>]]

\* The bodies of the owner: every variant of DocItemEnum, the table and the
\* enum both empty and holding a member "a" already.
OwnerInners ==
    { [kind |-> "Class", fields |-> <<>>, methods |-> <<>>],
      [kind |-> "Table", view |-> <<"a">>, fields |-> EmptyMap, functions |-> EmptyMap],
      [kind |-> "Table", view |-> <<"a">>,
       fields |-> insert(EmptyMap, <<"a">>, OldField(<<"a">>)),
       functions |-> insert(EmptyMap, <<"a">>, OldFunction(<<"a">>))],
      [kind |-> "Enum", fields |-> EmptyMap],
      [kind |-> "Enum", fields |-> insert(EmptyMap, <<"a">>, OldField(<<"a">>))],
      [kind |-> "TypeAlias", aliased_type |-> <<"a">>],
      [kind |-> "Global", global |-> [kind |-> "Primitive", primitive_type |-> <<"a">>]] }

\* The MetaFiles the passes run on: an item "b" of any kind or none, beside
\* a class "a" or nothing.
FieldMetaFiles ==
    LET owners == { EmptyMap }
                  \cup { insert(EmptyMap, <<"b">>, PassItem(<<"b">>, inner)) : inner \in OwnerInners }
    IN  { [uri |-> ParseUri, items |-> m] : m \in owners }
        \cup { [uri |-> ParseUri,
                items |-> insert(m, <<"a">>, PassItem(<<"a">>, [kind |-> "Class", fields |-> <<>>,
                                                                methods |-> <<>>]))] :
                 m \in owners }

\* The names of the definitions: members of "b" and of "c", a name without
\* a ".", and a name with two.
FieldNames ==
    { <<"b", ".", "a">>, <<"b", ".", "b">>, <<"c", ".", "a">>, <<"b">>,
      <<"b", ".", "a", ".", "b">> }

\* The extends lists of the definitions: none, one entry of every tag, and
\* two entries of different tags.
FieldExtends ==
    { <<>> } \cup { << e >> : e \in ExtendsEntries }
    \cup { << Extends("integer", <<"a">>), Extends("doc.type", <<"b">>) >>,
           << Extends("doc.type", <<"b">>), Extends("integer", <<"a">>) >> }

FieldDefinitions ==
    { Definition(n, "variable", k, e, <<>>, ParseUri) :
        n \in FieldNames, k \in {"setfield", "setindex", "tablefield", "setglobal"},
        e \in FieldExtends }

InitFields ==
    /\ pc = "fields"
    /\ root = RootUri
    /\ building \in { Some(mf) : mf \in FieldMetaFiles }
    /\ parse_input \in FieldDefinitions
    /\ parsed = None
    /\ result = None
    /\ source_files = <<>>
    /\ next_def = 1
    /\ TreeIdle
    /\ WsIdle

\* parse_set_fields(&mut meta_file, &source_file) on a file of one definition
SetFieldsPass ==
    /\ pc = "fields"
    /\ result' = parse_set_field(building.val, parse_input)
    /\ pc' = "set_fields"
    /\ UNCHANGED <<root, building, parse_input, parsed, source_files, next_def, treeVars, wsVars>>

\* parse_table_fields(&mut meta_file, &source_file) on a file of one definition
TableFieldsPass ==
    /\ pc = "fields"
    /\ result' = parse_table_field(building.val, parse_input)
    /\ pc' = "table_fields"
    /\ UNCHANGED <<root, building, parse_input, parsed, source_files, next_def, treeVars, wsVars>>

NextFields == SetFieldsPass \/ TableFieldsPass

SpecFields == InitFields /\ [][NextFields]_vars

----------------------------------------------------------------------------
(* merge_class_tables on one file, run once and run again *)

\* The names of the items of the file.
MergeNames == { <<"a">>, <<"b">>, <<"c">> }

\* The views of its tables: the three names, and the first in upper case.
MergeViews == MergeNames \cup { <<"A">> }

\* The bodies of its items: a class, a table of every view, an enum.
MergeInners ==
    { [kind |-> "Class", fields |-> <<>>, methods |-> <<>>],
      [kind |-> "Enum", fields |-> EmptyMap] }
    \cup { [kind |-> "Table", view |-> v, fields |-> EmptyMap, functions |-> EmptyMap] :
             v \in MergeViews }

\* The MetaFiles the pass runs on: every map from some of the names to an
\* item of that name.
MergeMetaFiles ==
    { [uri |-> ParseUri, items |-> [k \in DOMAIN m |-> PassItem(k, m[k])]] :
        m \in UNION { [ks -> MergeInners] : ks \in SUBSET MergeNames } }

InitMerge ==
    /\ pc = "merge"
    /\ root = RootUri
    /\ building \in { Some(mf) : mf \in MergeMetaFiles }
    /\ source_files = << [uri |-> ParseUri, definitions |-> <<>>, text |-> "text"] >>
    /\ next_def = 1
    /\ result = None
    /\ TreeIdle
    /\ WsIdle
    /\ ParseIdle

\* merge_class_tables(&mut meta_file, &source_file)
MergePass ==
    /\ pc = "merge"
    /\ result' = merge_class_tables(building.val, source_file)
    /\ pc' = "merged"
    /\ UNCHANGED <<root, building, source_files, next_def, treeVars, wsVars, parseVars>>

\* merge_class_tables(&mut meta_file, &source_file) on the file it has run on
MergePassAgain ==
    /\ pc = "merged"
    /\ result.ok
    /\ parsed' = merge_class_tables(result.val, source_file)
    /\ pc' = "merged_twice"
    /\ UNCHANGED <<root, parse_input, docVars, treeVars, wsVars>>

NextMerge == MergePass \/ MergePassAgain

SpecMerge == InitMerge /\ [][NextMerge]_vars

----------------------------------------------------------------------------
(* Position and Range (location.rs) *)

\* The factor of the LuaLS encoding of a position.
PackBase == 10000

Position(line, character) == [line |-> line, character |-> character]

\* u64::min
min(a, b) == IF a <= b THEN a ELSE b

\* Position::unpack
Position_unpack(position) ==
    Position(position \div PackBase, position % PackBase)

\* A pack that adds the character as it is.
Position_pack_unclamped(self) == self.line * PackBase + self.character

\* Position::pack
Position_pack(self) == self.line * PackBase + min(self.character, PackBase - 1)

\* From<u64> for Position
Position_from(value) == Position_unpack(value)

\* #[derive(PartialOrd, Ord)] on Position: by line, then by character.
Position_lt(a, b) == a.line < b.line \/ (a.line = b.line /\ a.character < b.character)

Position_le(a, b) == a = b \/ Position_lt(a, b)

\* Range::new: the Range, or the panic of assert!(start <= end)
Range_new(start, end) ==
    IF Position_le(start, end) THEN Ok([start |-> start, end |-> end])
    ELSE Err("assertion failed: start <= end")

\* From<(Position, Position)> for Range: the Range, or the panic of the assert
Range_from(value) ==
    IF Position_le(value[1], value[2]) THEN Ok([start |-> value[1], end |-> value[2]])
    ELSE Err("assertion failed: start <= end")

\* A join that covers both ranges when they overlap.
Range_join_covering(self, other) ==
    IF Position_lt(other.start, self.end)
    THEN [start |-> self.start,
          end |-> IF Position_lt(self.end, other.end) THEN other.end ELSE self.end]
    ELSE [start |-> self.start, end |-> other.end]

\* Range::join
Range_join(self, other) ==
    IF Position_lt(other.start, self.end) THEN self
    ELSE [start |-> self.start, end |-> other.end]

\* The positions handed to pack: characters at both ends of the range of
\* the encoding, at the factor, and beyond it.
PackedPositions ==
    { Position(l, c) : l \in 0..MaxLine,
                       c \in { 0, 1, PackBase - 2, PackBase - 1, PackBase, PackBase + 1,
                                2 * PackBase - 1, 2 * PackBase } }

InitPosition ==
    /\ pc = "pack"
    /\ root = RootUri
    /\ parse_input \in PackedPositions
    /\ parsed = None
    /\ TreeIdle
    /\ WsIdle
    /\ DocsIdle

\* position.pack()
Pack ==
    /\ pc = "pack"
    /\ parsed' = Position_pack(parse_input)
    /\ pc' = "packed"
    /\ UNCHANGED <<root, parse_input, treeVars, wsVars, docVars>>

\* Position::unpack(packed)
Unpack ==
    /\ pc = "packed"
    /\ result' = Position_unpack(parsed)
    /\ pc' = "unpacked"
    /\ UNCHANGED <<root, parseVars, source_files, building, next_def, treeVars, wsVars>>

\* Position::from(packed), the conversion serde deserializes a Position with
FromU64 ==
    /\ pc = "packed"
    /\ result' = Position_from(parsed)
    /\ pc' = "converted"
    /\ UNCHANGED <<root, parseVars, source_files, building, next_def, treeVars, wsVars>>

NextPosition == Pack \/ Unpack \/ FromU64

SpecPosition == InitPosition /\ [][NextPosition]_vars

\* The positions of the ranges.
RangePositions == { Position(l, c) : l \in 0..MaxCoord, c \in 0..MaxCoord }

\* Two pairs of positions, in any order: the arguments of the two
\* constructions.
InitRange ==
    /\ pc = "range_new"
    /\ root = RootUri
    /\ parse_input \in [self : RangePositions \X RangePositions,
                         other : RangePositions \X RangePositions]
    /\ parsed = None
    /\ TreeIdle
    /\ WsIdle
    /\ DocsIdle

\* let this = Range::new(start, end)
RangeNew ==
    /\ pc = "range_new"
    /\ building' = Range_new(parse_input.self[1], parse_input.self[2])
    /\ pc' = IF building'.ok THEN "range_from" ELSE "panicked"
    /\ UNCHANGED <<root, parseVars, source_files, next_def, result, treeVars, wsVars>>

\* let other = Range::from((start, end))
RangeFrom ==
    /\ pc = "range_from"
    /\ result' = Range_from(parse_input.other)
    /\ pc' = IF result'.ok THEN "join" ELSE "panicked"
    /\ UNCHANGED <<root, parseVars, source_files, building, next_def, treeVars, wsVars>>

\* this.join(&other)
RangeJoin ==
    /\ pc = "join"
    /\ parsed' = Range_join(building.val, result.val)
    /\ pc' = "joined"
    /\ UNCHANGED <<root, parse_input, docVars, treeVars, wsVars>>

NextRange == RangeNew \/ RangeFrom \/ RangeJoin

SpecRange == InitRange /\ [][NextRange]_vars

----------------------------------------------------------------------------
(* file_stem and extension of a file identifier *)

\* The file names: the texts over "a", "b" and "." that FileUri::new lets
\* stand as a last path segment (not made of dots alone, not ending in "..").
SplitFileNames ==
    { n \in SeqsOf({"a", "b", "."}, 1, MaxNameLen) :
        /\ \E i \in DOMAIN n : n[i] # "."
        /\ ~(Len(n) >= 2 /\ n[Len(n)] = "." /\ n[Len(n) - 1] = ".") }

InitSplit ==
    /\ pc = "file_stem"
    /\ root = RootUri
    /\ parse_input \in { [host |-> RootUri.host, path |-> RootUri.path \o d \o << f >>] :
                            d \in SeqsOf(DirNames, 0, 1), f \in SplitFileNames }
    /\ parsed = None
    /\ TreeIdle
    /\ WsIdle
    /\ DocsIdle

\* uri.file_stem()
FileStem ==
    /\ pc = "file_stem"
    /\ result' = file_stem(parse_input)
    /\ pc' = "extension"
    /\ UNCHANGED <<root, parseVars, source_files, building, next_def, treeVars, wsVars>>

\* uri.extension()
FileExtension ==
    /\ pc = "extension"
    /\ parsed' = extension(parse_input)
    /\ pc' = "split"
    /\ UNCHANGED <<root, parse_input, docVars, treeVars, wsVars>>

NextSplit == FileStem \/ FileExtension

SpecSplit == InitSplit /\ [][NextSplit]_vars

----------------------------------------------------------------------------
(* The passes of build_docs on one file, in the order of build_docs and in
   other orders *)

\* The definitions of the file: a class "a", a table "b" viewed as "a", an
\* enum "c", fields set on the table (by an integer, by a doc type), and
\* enum values of the enum and of the table.
OrderDefinitions ==
    { Definition(<<"a">>, "type", "doc.class", <<>>, <<>>, ParseUri),
      Definition(<<"b">>, "variable", "setglobal", << Extends("table", <<"a">>) >>, <<>>, ParseUri),
      Definition(<<"c">>, "type", "doc.enum", <<>>, <<>>, ParseUri),
      Definition(<<"b", ".", "a">>, "variable", "setfield", << Extends("integer", <<"a">>) >>, <<>>, ParseUri),
      Definition(<<"b", ".", "a">>, "variable", "setindex", << Extends("doc.type", <<"a">>) >>, <<>>, ParseUri),
      Definition(<<"c", ".", "a">>, "type", "tablefield", <<>>, <<>>, ParseUri),
      Definition(<<"b", ".", "a">>, "type", "tablefield", <<>>, <<>>, ParseUri) }

InitOrder ==
    /\ pc = "parse_items"
    /\ root = RootUri
    /\ \E ds \in SeqsOf(OrderDefinitions, 0, MaxOrderDefinitions) :
          source_files = << [uri |-> ParseUri, definitions |-> ds, text |-> "text"] >>
    /\ building = None
    /\ next_def = 1
    /\ result = None
    /\ TreeIdle
    /\ WsIdle
    /\ ParseIdle

\* parse_items(&mut meta_file, &source_file)?
ItemsPass ==
    /\ pc = "parse_items"
    /\ Len(source_files) = 1
    /\ building' = parse_items(MetaFile_new(source_file.uri), source_file)
    /\ pc' = Try(building', "fields")
    /\ UNCHANGED <<root, source_files, next_def, result, treeVars, wsVars, parseVars>>

\* parse_set_fields(..)?; parse_table_fields(..)?
SetFieldsFirst ==
    /\ pc = "fields"
    /\ result' = parse_table_fields(parse_set_fields(building, source_file), source_file)
    /\ pc' = "set_first"
    /\ UNCHANGED <<root, source_files, building, next_def, treeVars, wsVars, parseVars>>

\* parse_table_fields(..)?; parse_set_fields(..)?
TableFieldsFirst ==
    /\ pc = "set_first"
    /\ parsed' = parse_set_fields(parse_table_fields(building, source_file), source_file)
    /\ pc' = "either_first"
    /\ UNCHANGED <<root, parse_input, docVars, treeVars, wsVars>>

\* parse_set_fields(..)?; parse_table_fields(..)?; merge_class_tables(..)?
MergeLast ==
    /\ pc = "fields"
    /\ result' = merge_after(parse_table_fields(parse_set_fields(building, source_file),
                                                source_file), source_file)
    /\ pc' = "merge_last"
    /\ UNCHANGED <<root, source_files, building, next_def, treeVars, wsVars, parseVars>>

\* merge_class_tables(..)?; parse_set_fields(..)?; parse_table_fields(..)?
MergeFirst ==
    /\ pc = "merge_last"
    /\ parsed' = parse_table_fields(parse_set_fields(merge_after(building, source_file),
                                                     source_file), source_file)
    /\ pc' = "merge_either"
    /\ UNCHANGED <<root, parse_input, docVars, treeVars, wsVars>>

NextOrder == ItemsPass \/ SetFieldsFirst \/ TableFieldsFirst \/ MergeLast \/ MergeFirst

SpecOrder == InitOrder /\ [][NextOrder]_vars

----------------------------------------------------------------------------
(* parse_items on one file *)

\* The definitions of the file: under each of two names a class, an enum, a
\* table and a global; a set-field record named as an item; and a global
\* without extends, which DocItem::parse fails on.
ItemDefinitions ==
    UNION { { Definition(n, "type", "doc.class", <<>>, <<>>, ParseUri),
              Definition(n, "type", "doc.enum", <<>>, <<>>, ParseUri),
              Definition(n, "variable", "setglobal", << Extends("table", <<"a">>) >>, <<>>, ParseUri),
              Definition(n, "variable", "setglobal", << Extends("integer", <<"a">>) >>, <<>>, ParseUri) } :
            n \in { <<"a">>, <<"b">> } }
    \cup { Definition(<<"a">>, "variable", "setfield", << Extends("integer", <<"a">>) >>, <<>>, ParseUri),
           Definition(<<"a">>, "variable", "setglobal", <<>>, <<>>, ParseUri) }

InitItems ==
    /\ pc = "parse_items"
    /\ root = RootUri
    /\ \E ds \in SeqsOf(ItemDefinitions, 0, MaxDefinitions) :
          source_files = << [uri |-> ParseUri, definitions |-> ds, text |-> "text"] >>
    /\ building = None
    /\ next_def = 1
    /\ result = None
    /\ TreeIdle
    /\ WsIdle
    /\ ParseIdle

NextItems == ItemsPass

SpecItems == InitItems /\ [][NextItems]_vars

----------------------------------------------------------------------------
(* SourceFile::add_definition, then DocItem::parse on the definition's head *)

\* The file being built, and another file of the workspace.
HeadUris == { DocUris[1], DocUris[2] }

\* The extends a define of kind k needs for its parser to succeed.
HeadExtends(k) ==
    CASE k = "setglobal" -> << Extends("table", <<"a">>) >>
      [] k = "doc.alias" -> << Extends("doc.type", <<"a">>) >>
      [] OTHER           -> <<>>

\* A definition whose defines have the kinds and files of `sites`; a
\* define's range is its place among the defines.
HeadDefinition(definition_type, sites) ==
    [name |-> <<"a">>, definition_type |-> definition_type, rawdesc |-> None,
     defines |-> [i \in DOMAIN sites |->
                    [define_type |-> sites[i][1],
                     location |-> [file |-> sites[i][2], range |-> i],
                     extends |-> HeadExtends(sites[i][1])]],
     fields |-> <<>>]

InitHead ==
    /\ pc = "add_definition"
    /\ root = RootUri
    /\ \E dt \in {"type", "variable"} :
       \E sites \in SeqsOf(DefineTypes \X HeadUris, 1, MaxSites) :
           parse_input = HeadDefinition(dt, sites)
    /\ parsed = None
    /\ TreeIdle
    /\ WsIdle
    /\ DocsIdle

\* source_file.add_definition(definition)?
AddDefinition ==
    /\ pc = "add_definition"
    /\ building' = add_definition([uri |-> DocUris[1], definitions |-> <<>>, text |-> "text"],
                                  parse_input)
    /\ pc' = Try(building', "parse_head")
    /\ UNCHANGED <<root, parseVars, source_files, next_def, result, treeVars, wsVars>>

\* DocItem::parse(definition) on the definition the file holds
ParseHead ==
    /\ pc = "parse_head"
    /\ parsed' = DocItem_parse(building.val.definitions[1])
    /\ pc' = "head_parsed"
    /\ UNCHANGED <<root, parse_input, docVars, treeVars, wsVars>>

NextHead == AddDefinition \/ ParseHead

SpecHead == InitHead /\ [][NextHead]_vars

----------------
(* Claims about build_tree *)

\* The path of the directory holding the file.
DirPath(uri) == SubSeq(uri.path, 1, Len(uri.path) - 1)

\* A file name without its extension: the part before the last ".".
NameWithoutExtension(name) ==
    IF IndexesOf(name, ".") = {} THEN name
    ELSE SubSeq(name, 1, MaxOf(IndexesOf(name, ".")) - 1)

\* p is the file that represents the directory holding c: it lies beside
\* that directory and is named like it, extension apart.
RepresentsDirOf(p, c) ==
    /\ Len(c.path) >= 2
    /\ DirPath(p) = DirPath([c EXCEPT !.path = DirPath(c)])
    /\ NameWithoutExtension(file_name(p)) = c.path[Len(c.path) - 1]

ParentOf(t, n) == CHOOSE p \in t : p.pos = SubSeq(n.pos, 1, Len(n.pos) - 1)

TopLevel(t) == ChildrenOf(t, <<>>)

InputUris == { meta_files[i].uri : i \in DOMAIN meta_files }

\* C1: every node of the tree that is not top-level is a child of the node
\* of the file that represents its parent directory (the file beside that
\* directory whose name without extension is the directory's name).
C1_ChildUnderParentDirectoryFile ==
    \A n \in tree :
        Len(n.pos) > 1 => RepresentsDirOf(ParentOf(tree, n).file.uri, n.file.uri)

\* C2: each MetaFile occurs at most once in the tree.
C2_EachFileAtMostOnce ==
    \A n, m \in tree : n.file.uri = m.file.uri => n = m

\* C3: when build_tree returns, the top-level nodes are exactly the input
\* files that are direct children of the root directory, each once, in
\* ascending order of file name.
C3_TopLevelIffDirectChild ==
    pc = "done" =>
        /\ { n.file.uri : n \in TopLevel(tree) } = { u \in InputUris : DirPath(u) = root.path }
        /\ \A n, m \in TopLevel(tree) : n.file.uri = m.file.uri => n = m
        /\ \A n, m \in TopLevel(tree) :
               n.pos[1] < m.pos[1] => StrLess(file_name(n.file.uri), file_name(m.file.uri))

\* Two top-level nodes and a file that is not top-level went through build_tree.
C3_Witness ==
    /\ pc = "done"
    /\ Cardinality(TopLevel(tree)) >= 2
    /\ \E u \in InputUris : DirPath(u) # root.path

\* The input Vec without the file u.
RECURSIVE WithoutUri(_, _)
WithoutUri(mfs, u) ==
    IF mfs = <<>> THEN <<>>
    ELSE IF Head(mfs).uri = u THEN WithoutUri(Tail(mfs), u)
    ELSE << Head(mfs) >> \o WithoutUri(Tail(mfs), u)

----------------------------------------------------------------------------
(* Claims about the workspace *)

\* The file lies below the workspace root.
InRoot(uri) == uri.host = root.host /\ starts_with_path(uri, root)

\* The depth of a file relative to the root.
DepthBelowRoot(uri) == Len(uri.path) - Len(root.path)

\* C5: iterating a workspace yields all its files, ascending by depth
\* relative to the root and then by file name, and iterating the same files
\* again yields the same sequence.
C5_IterationDeterministicOrder ==
    /\ \A k \in DOMAIN iter_result :
           /\ iter_result[k].kind = "files"
           /\ LET out == iter_result[k].files
              IN  /\ { out[i].uri : i \in DOMAIN out } = DOMAIN files
                  /\ Len(out) = Cardinality(DOMAIN files)
                  /\ \A i, j \in DOMAIN out :
                         i < j =>
                             \/ DepthBelowRoot(out[i].uri) < DepthBelowRoot(out[j].uri)
                             \/ /\ DepthBelowRoot(out[i].uri) = DepthBelowRoot(out[j].uri)
                                /\ ~StrLess(file_name(out[j].uri), file_name(out[i].uri))
    /\ \A k, l \in DOMAIN iter_result : iter_result[k] = iter_result[l]

\* C6: every file the workspace holds has a path that starts with the
\* root's path.
C6_FilesUnderRoot ==
    \A uri \in DOMAIN files : starts_with_path(uri, root)

\* The loaded definitions that have a define in file uri, in load order.
LoadedFor(uri) ==
    SelectSeq(loaded, LAMBDA d : \E i \in DOMAIN d.defines : d.defines[i].location.file = uri)

\* The defines of definition d that lie in file uri, in their order in d.
DefinesIn(d, uri) == SelectSeq(d.defines, LAMBDA define : define.location.file = uri)

\* C7: after successful loads, the definitions of a file are the loaded
\* definitions that have a define in it, each stored once, in load order;
\* the defines of a stored definition are not empty, all lie in that file
\* and are the original's defines in that file, in their order; and every
\* file below the root that a loaded definition names is in the workspace.
C7_DefinesSplitByFile ==
    pc # "load_failed" =>
        /\ \A uri \in DOMAIN files :
               LET stored == files[uri].definitions
                   given  == LoadedFor(uri)
               IN  /\ Len(stored) = Len(given)
                   /\ \A i \in DOMAIN stored :
                          /\ stored[i].defines # <<>>
                          /\ \A j \in DOMAIN stored[i].defines :
                                 stored[i].defines[j].location.file = uri
                          /\ i \in DOMAIN given
                          /\ stored[i] = [given[i] EXCEPT !.defines = DefinesIn(given[i], uri)]
        /\ \A uri \in WsUris :
               InRoot(uri) /\ LoadedFor(uri) # <<>> => uri \in DOMAIN files

\* A definition with defines in two files below the root was loaded and
\* split over them.
C7_Witness ==
    /\ pc = "workspace"
    /\ \E i \in DOMAIN loaded :
       \E u, v \in DOMAIN files :
           /\ u # v /\ InRoot(u) /\ InRoot(v)
           /\ DefinesIn(loaded[i], u) # <<>>
           /\ DefinesIn(loaded[i], v) # <<>>
           /\ files[u].definitions # <<>>
           /\ files[v].definitions # <<>>

----------------------------------------------------------------------------
(* Claims about DocItem::parse *)

\* C9: DocItem::parse of a definition whose head define kind is SetGlobal is
\* decided by the tag of its first extends entry: table gives a Table item
\* whose view is that entry's view, with no fields and no functions; binary,
\* integer, nil, number or string gives Global::Primitive holding the view;
\* function gives Global::Function; doc.type, doc.extends.name and an empty
\* extends list are errors.
C9_SetGlobalDecidedByFirstExtends ==
    (pc = "parsed" /\ head(parse_input).define_type = "setglobal") =>
        LET all == head(parse_input).extends
        IN  IF all = <<>> THEN ~parsed.ok
            ELSE LET tag == all[1].extends_type
                 IN  CASE tag \in {"doc.type", "doc.extends.name"} -> ~parsed.ok
                       [] tag = "table" ->
                            /\ parsed.ok /\ parsed.val.some
                            /\ parsed.val.val.inner.kind = "Table"
                            /\ parsed.val.val.inner.view = all[1].view
                            /\ DOMAIN parsed.val.val.inner.fields = {}
                            /\ DOMAIN parsed.val.val.inner.functions = {}
                       [] tag \in PrimitiveTypes ->
                            /\ parsed.ok /\ parsed.val.some
                            /\ parsed.val.val.inner.kind = "Global"
                            /\ parsed.val.val.inner.global.kind = "Primitive"
                            /\ parsed.val.val.inner.global.primitive_type = all[1].view
                       [] tag = "function" ->
                            /\ parsed.ok /\ parsed.val.some
                            /\ parsed.val.val.inner.kind = "Global"
                            /\ parsed.val.val.inner.global.kind = "Function"

\* A SetGlobal with two extends entries, a table and then an integer of
\* another view, has been parsed into a Table.
C9_Witness ==
    /\ pc = "parsed"
    /\ head(parse_input).define_type = "setglobal"
    /\ Len(head(parse_input).extends) = 2
    /\ head(parse_input).extends[1].extends_type = "table"
    /\ head(parse_input).extends[2].extends_type = "integer"
    /\ head(parse_input).extends[2].view # head(parse_input).extends[1].view
    /\ parsed.ok
    /\ parsed.val.val.inner.kind = "Table"

\* C10 (as amended): parsing a definition whose head define kind is
\* doc.alias fails when the extends list is empty and when its first entry
\* is not tagged doc.type; otherwise it gives a TypeAlias whose aliased_type
\* is the first entry's view, whatever entries follow the first.
C10_AliasTakesFirstExtends ==
    (pc = "parsed" /\ head(parse_input).define_type = "doc.alias") =>
        LET all == head(parse_input).extends
        IN  IF all = <<>> \/ all[1].extends_type # "doc.type" THEN ~parsed.ok
            ELSE /\ parsed.ok /\ parsed.val.some
                 /\ parsed.val.val.inner.kind = "TypeAlias"
                 /\ parsed.val.val.inner.aliased_type = all[1].view

\* A doc.alias with two extends entries, the first a doc.type, has been
\* parsed into a TypeAlias of the first entry's view.
C10_Witness ==
    /\ pc = "parsed"
    /\ head(parse_input).define_type = "doc.alias"
    /\ Len(head(parse_input).extends) = 2
    /\ head(parse_input).extends[1].extends_type = "doc.type"
    /\ head(parse_input).extends[2].view # head(parse_input).extends[1].view
    /\ parsed.ok
    /\ parsed.val.val.inner.aliased_type = head(parse_input).extends[1].view

\* C10 (as stated): parsing a doc.alias definition requires exactly one
\* extends entry, tagged doc.type, and gives a TypeAlias of that entry's
\* view; it fails on an empty extends list, on an entry with another tag
\* and on more than one extends entry.
C10_AliasRequiresExactlyOneExtends ==
    (pc = "parsed" /\ head(parse_input).define_type = "doc.alias") =>
        LET all == head(parse_input).extends
        IN  IF Len(all) # 1 \/ all[1].extends_type # "doc.type" THEN ~parsed.ok
            ELSE /\ parsed.ok /\ parsed.val.some
                 /\ parsed.val.val.inner.kind = "TypeAlias"
                 /\ parsed.val.val.inner.aliased_type = all[1].view

----------------------------------------------------------------------------
(* Claims about build_docs *)

PassNames == { "parse_items", "parse_set_fields", "parse_table_fields", "merge_class_tables" }

\* C8: build_docs aborts on the first error a pass raises on a file: the
\* step of a failing pass ends build_docs with that error, the files built
\* before it are left as they are and nothing is pushed; once it has failed
\* no pass runs and no file is processed, and no DocTree has been built; a
\* DocTree is returned only when every file went through every pass.
C8_FirstFatalErrorAborts ==
    [][ /\ pc # "failed"
        /\ (/\ pc \in PassNames
            /\ (pc = "merge_class_tables" \/ HasDefinition)
            /\ ~RunPass(pc).ok) =>
              /\ pc' = "failed"
              /\ result'.some /\ ~result'.val.ok
              /\ result'.val.val = RunPass(pc).val
              /\ meta_files' = meta_files
        /\ pc' = "failed" => tree' = DocTree_new
        /\ pc' = "returned" =>
              (result'.val.ok /\ Len(meta_files') = Len(source_files')) ]_vars

\* build_docs has failed in the set-field pass of the first of two files.
C8_Witness ==
    /\ pc = "failed"
    /\ Len(source_files) = 2
    /\ meta_files = <<>>
    /\ result.val.val = "Setting field for non-table"

\* The fields of a class definition that Class.methods is made of.
MethodFields(definition) ==
    SelectSeq(definition.fields, LAMBDA f :
        \/ f.field_type = "setmethod"
        \/ (f.field_type = "setfield" /\ f.extends.extends_type = "function"))

\* The NamedFunction nf is the field f: its name, and its arguments and
\* returns in the order and number of the input.
KeepsField(nf, f) ==
    /\ nf.name = f.name
    /\ Len(nf.function.arguments) = Len(f.extends.args)
    /\ \A i \in DOMAIN f.extends.args :
          /\ nf.function.arguments[i].name = f.extends.args[i].name
          /\ nf.function.arguments[i].description = f.extends.args[i].rawdesc
    /\ Len(nf.function.returns) = Len(f.extends.returns)
    /\ \A i \in DOMAIN f.extends.returns :
          /\ nf.function.returns[i].name = f.extends.returns[i].name
          /\ nf.function.returns[i].return_type = f.extends.returns[i].view

\* C11: for a type-flavored doc.class definition, Class.methods holds
\* exactly one NamedFunction for each SetMethod field and each SetField field
\* whose extends is function-typed, none lost or duplicated by the merge,
\* each with the arguments and returns of its field in their order and
\* number; a variable-flavored definition, or a SetMethod field whose
\* extends is not function-typed, makes Class::parse fail.
C11_ClassMethodsOnePerMethodField ==
    (pc = "parsed" /\ head(parse_input).define_type = "doc.class") =>
        IF \/ parse_input.definition_type # "type"
           \/ \E i \in DOMAIN parse_input.fields :
                 /\ parse_input.fields[i].field_type = "setmethod"
                 /\ parse_input.fields[i].extends.extends_type # "function"
        THEN ~parsed.ok
        ELSE /\ parsed.ok /\ parsed.val.some
             /\ parsed.val.val.inner.kind = "Class"
             /\ LET methods  == parsed.val.val.inner.methods
                    expected == MethodFields(parse_input)
                IN  /\ Len(methods) = Len(expected)
                    /\ \E p \in [DOMAIN methods -> DOMAIN expected] :
                          /\ IsInjective(p)
                          /\ \A i \in DOMAIN methods : KeepsField(methods[i], expected[p[i]])

\* A class with a function-typed SetField "b" followed by a SetMethod "a"
\* has been parsed: both are methods, and the merge has put "a" first.
C11_Witness ==
    /\ pc = "parsed"
    /\ head(parse_input).define_type = "doc.class"
    /\ Len(parse_input.fields) = 2
    /\ parse_input.fields[1].field_type = "setfield"
    /\ parse_input.fields[1].name = <<"b">>
    /\ parse_input.fields[2].field_type = "setmethod"
    /\ parsed.ok
    /\ Len(parsed.val.val.inner.methods) = 2
    /\ parsed.val.val.inner.methods[1].name = <<"a">>

\* C12: Function::parse yields the input view with one leading "(method) "
\* removed when the view starts with it, and the input view itself
\* otherwise (also when the text stands elsewhere in the view); an argument
\* tagged self becomes "self", one tagged vararg becomes "...", and one
\* tagged doc.type or local becomes its rendered view.
C12_FunctionViewAndArguments ==
    (pc = "function_parsed" /\ parse_input.extends_type = "function") =>
        /\ parsed.ok
        /\ IF StartsWith(parse_input.view, MethodPrefix)
           THEN MethodPrefix \o parsed.val.view = parse_input.view
           ELSE parsed.val.view = parse_input.view
        /\ Len(parsed.val.arguments) = Len(parse_input.args)
        /\ \A i \in DOMAIN parse_input.args :
              LET tag == parse_input.args[i].arg_type
              IN  parsed.val.arguments[i].arg_type =
                    (CASE tag = "self" -> <<"s", "e", "l", "f">>
                       [] tag = "..."  -> <<".", ".", ".">>
                       [] OTHER        -> parse_input.args[i].view)

\* A function whose view holds the prefix twice, with a self and a vararg
\* argument, has been parsed: one prefix is left in the view.
C12_Witness ==
    /\ pc = "function_parsed"
    /\ parse_input.extends_type = "function"
    /\ parse_input.view = MethodPrefix \o MethodPrefix \o <<"a">>
    /\ Len(parse_input.args) = 2
    /\ parse_input.args[1].arg_type = "self"
    /\ parse_input.args[2].arg_type = "..."
    /\ parsed.ok
    /\ parsed.val.view = MethodPrefix \o <<"a">>

----------------------------------------------------------------------------
(* Claims about the set-field and the table-field pass *)

\* The name of the definition holds a ".".
HasMember == IndexesOf(parse_input.name, ".") # {}

\* The part of the name before its first ".", and the part after it.
OwnerName == SubSeq(parse_input.name, 1, MinOf(IndexesOf(parse_input.name, ".")) - 1)

MemberName ==
    SubSeq(parse_input.name, MinOf(IndexesOf(parse_input.name, ".")) + 1, Len(parse_input.name))

\* The items of the file before the pass, and its owner item.
ItemsBefore == building.val.items

OwnerBefore == ItemsBefore[OwnerName]

\* The pass returned Ok and changed nothing but the map `slot` ("fields" or
\* "functions") of the owner, where only the entry of the member changed.
OnlyMemberSet(slot) ==
    /\ result.ok
    /\ result.val.uri = building.val.uri
    /\ DOMAIN result.val.items = DOMAIN ItemsBefore
    /\ \A k \in DOMAIN ItemsBefore \ { OwnerName } : result.val.items[k] = ItemsBefore[k]
    /\ LET after == result.val.items[OwnerName]
       IN  /\ after.name = OwnerBefore.name
           /\ after.description = OwnerBefore.description
           /\ after.range = OwnerBefore.range
           /\ after.inner.kind = OwnerBefore.inner.kind
           /\ \A f \in DOMAIN OwnerBefore.inner \ { slot } : after.inner[f] = OwnerBefore.inner[f]
           /\ DOMAIN after.inner[slot] = DOMAIN OwnerBefore.inner[slot] \cup { MemberName }
           /\ \A k \in DOMAIN OwnerBefore.inner[slot] \ { MemberName } :
                 after.inner[slot][k] = OwnerBefore.inner[slot][k]
           /\ after.inner[slot][MemberName].name = MemberName

\* The set-field pass has run on a SetField or SetIndex definition.
SetFieldRan ==
    /\ pc = "set_fields"
    /\ head(parse_input).define_type \in {"setfield", "setindex"}
    /\ HasMember

\* C13: in the set-field pass, with an owner that is a Table, a primitive or
\* Table tag of the (first) extends entry sets the Field of the member name
\* in Table.fields, a Function tag sets the NamedFunction of the member name
\* in Table.functions, and any other tag is an error; an owner that is
\* neither a Table nor a Class is an error whatever the extends list holds.
C13_SetFieldOnTableOrError ==
    (SetFieldRan /\ OwnerName \in DOMAIN ItemsBefore) =>
        LET extends == head(parse_input).extends
            tag     == extends[1].extends_type
        IN  /\ (OwnerBefore.inner.kind = "Table" /\ extends # <<>>
                   /\ tag \in PrimitiveTypes \cup {"table"}) =>
                  /\ OnlyMemberSet("fields")
                  /\ result.val.items[OwnerName].inner.fields[MemberName] =
                        [name |-> MemberName, description |-> parse_input.rawdesc,
                         lua_type |-> extends[1].view]
            /\ (OwnerBefore.inner.kind = "Table" /\ extends # <<>> /\ tag = "function") =>
                  /\ OnlyMemberSet("functions")
                  /\ Ok(result.val.items[OwnerName].inner.functions[MemberName].function) =
                        Function_parse(extends[1])
            /\ (OwnerBefore.inner.kind = "Table" /\ extends # <<>>
                   /\ tag \notin PrimitiveTypes \cup {"table", "function"}) =>
                  ~result.ok
            /\ OwnerBefore.inner.kind \notin {"Table", "Class"} => ~result.ok

\* A string set on the member "a" of a table that held a field "a" has
\* replaced the field, and a set on an enum has failed.
C13_Witness ==
    /\ SetFieldRan
    /\ OwnerName \in DOMAIN ItemsBefore
    /\ OwnerBefore.inner.kind = "Table"
    /\ MemberName \in DOMAIN OwnerBefore.inner.fields
    /\ head(parse_input).extends # <<>>
    /\ head(parse_input).extends[1].extends_type = "string"
    /\ result.ok
    /\ result.val.items[OwnerName].inner.fields[MemberName] # OwnerBefore.inner.fields[MemberName]

\* The table-field pass has run on a TableField definition.
TableFieldRan ==
    /\ pc = "table_fields"
    /\ head(parse_input).define_type = "tablefield"
    /\ HasMember

\* C14: in the table-field pass a TableField definition without an owner
\* item is skipped with no error and no change; with an Enum owner the
\* Field of the member name, of empty type, is set in its fields; with an
\* owner of another kind the pass fails.
C14_TableFieldOnEnumOrError ==
    TableFieldRan =>
        IF OwnerName \notin DOMAIN ItemsBefore
        THEN result.ok /\ result.val = building.val
        ELSE IF OwnerBefore.inner.kind = "Enum"
        THEN /\ OnlyMemberSet("fields")
             /\ result.val.items[OwnerName].inner.fields[MemberName] =
                   [name |-> MemberName, description |-> parse_input.rawdesc,
                    lua_type |-> EmptyStr]
        ELSE ~result.ok

\* The member "a" of an enum that held a field "a" has been replaced.
C14_Witness ==
    /\ TableFieldRan
    /\ OwnerName \in DOMAIN ItemsBefore
    /\ OwnerBefore.inner.kind = "Enum"
    /\ MemberName \in DOMAIN OwnerBefore.inner.fields
    /\ result.ok
    /\ result.val.items[OwnerName].inner.fields[MemberName].lua_type = EmptyStr
    /\ OwnerBefore.inner.fields[MemberName].lua_type # EmptyStr

\* C20: in the set-field pass a SetField or SetIndex definition whose owner
\* has no item in the file's map is skipped: no error, whatever the extends
\* list holds, and the item map is unchanged.
C20_MissingOwnerSkippedSilently ==
    (SetFieldRan /\ OwnerName \notin DOMAIN ItemsBefore) =>
        result.ok /\ result.val = building.val

----------------------------------------------------------------------------
(* Claims about merge_class_tables *)

\* The names of the Class items of the item map m.
ClassNames(m) == { m[k].name : k \in { x \in DOMAIN m : m[x].inner.kind = "Class" } }

\* The keys of the Table items of m whose view is the name of a Class of m.
MatchedTables(m) ==
    { k \in DOMAIN m : m[k].inner.kind = "Table" /\ m[k].inner.view \in ClassNames(m) }

\* C15: after merge_class_tables no Table is left whose view is the name of
\* a Class of the file: every such Table is removed in the one run, every
\* other item is left as it was, and the pass does not fail.
C15_MergeRemovesEveryMatchedTable ==
    pc \in {"merged", "merged_twice"} =>
        /\ result.ok
        /\ result.val.uri = building.val.uri
        /\ DOMAIN result.val.items = DOMAIN ItemsBefore \ MatchedTables(ItemsBefore)
        /\ \A k \in DOMAIN result.val.items : result.val.items[k] = ItemsBefore[k]
        /\ MatchedTables(result.val.items) = {}

\* Two tables viewed as the one class of the file have both been removed.
C15_Witness ==
    /\ pc = "merged"
    /\ Cardinality(MatchedTables(ItemsBefore)) = 2
    /\ result.ok
    /\ Cardinality(DOMAIN result.val.items) = 1

\* C16: running merge_class_tables a second time leaves the item map the
\* first run produced.
C16_MergeIdempotent ==
    pc = "merged_twice" => parsed.ok /\ parsed.val = result.val

\* The pass has run twice on a file whose first run removed a table and
\* kept a table viewed as the class's name in upper case.
C16_Witness ==
    /\ pc = "merged_twice"
    /\ MatchedTables(ItemsBefore) # {}
    /\ \E k \in DOMAIN result.val.items :
          /\ result.val.items[k].inner.kind = "Table"
          /\ result.val.items[k].inner.view = <<"A">>
    /\ <<"a">> \in ClassNames(result.val.items)
    /\ parsed.ok
    /\ parsed.val = result.val

----------------------------------------------------------------------------
(* Claims about Position and Range *)

\* C17: unpack(pack(p)) = p for every position whose character is below
\* 10000; for a character of 10000 or more pack takes 9999, so the packed
\* value's line part is the position's line.
C17_PackUnpackRoundTrip ==
    pc \in {"unpacked", "converted"} =>
        /\ result.line = parse_input.line
        /\ parse_input.character < PackBase => result = parse_input
        /\ parse_input.character >= PackBase => result.character = PackBase - 1
        /\ parsed = parse_input.line * PackBase + result.character

\* A position of line 3 with a character of 10000 has been packed and
\* unpacked: it comes back on line 3 with character 9999.
C17_Witness ==
    /\ pc = "unpacked"
    /\ parse_input.line = 3
    /\ parse_input.character = PackBase
    /\ result = Position(3, PackBase - 1)

\* C18: Range::new and the conversion from a pair fail when start > end;
\* join returns self when other.start < self.end, also when other ends
\* after self, and (self.start, other.end) otherwise, which has
\* start <= end.
C18_RangeConstructionAndJoin ==
    /\ pc = "panicked" =>
          \/ (~building.ok /\ Position_lt(parse_input.self[2], parse_input.self[1]))
          \/ (building.ok /\ ~result.ok /\ Position_lt(parse_input.other[2], parse_input.other[1]))
    /\ (pc \in {"range_from", "join", "joined"}) =>
          /\ building = Ok([start |-> parse_input.self[1], end |-> parse_input.self[2]])
          /\ ~Position_lt(parse_input.self[2], parse_input.self[1])
    /\ (pc \in {"join", "joined"}) =>
          /\ result = Ok([start |-> parse_input.other[1], end |-> parse_input.other[2]])
          /\ ~Position_lt(parse_input.other[2], parse_input.other[1])
    /\ pc = "joined" =>
          /\ Position_lt(result.val.start, building.val.end) => parsed = building.val
          /\ ~Position_lt(result.val.start, building.val.end) =>
                parsed = [start |-> building.val.start, end |-> result.val.end]
          /\ Position_le(parsed.start, parsed.end)

\* A range has been joined with one that starts before its end and ends
\* after it, and came back unchanged.
C18_Witness ==
    /\ pc = "joined"
    /\ Position_lt(result.val.start, building.val.end)
    /\ Position_lt(building.val.end, result.val.end)
    /\ parsed = building.val

----------------------------------------------------------------------------
(* Claims about the file stem and the extension *)

\* C19: for a file name with a dot, file_stem is the part before the last
\* dot and extension the part after it; for a file name without a dot,
\* file_stem is the whole name and extension is empty.
C19_StemBeforeLastDotExtensionAfter ==
    pc = "split" =>
        LET name == file_name(parse_input)
            dots == IndexesOf(name, ".")
        IN  IF dots = {}
            THEN result = name /\ parsed = EmptyStr
            ELSE /\ result = SubSeq(name, 1, MaxOf(dots) - 1)
                 /\ parsed = SubSeq(name, MaxOf(dots) + 1, Len(name))

\* C21: when the owner of a SetField or SetIndex definition is a Class, the
\* set-field pass raises no error and leaves the Class, and the whole item
\* map, as pass 1 made it.
C21_ClassOwnerLeftUnchanged ==
    (SetFieldRan /\ OwnerName \in DOMAIN ItemsBefore /\ OwnerBefore.inner.kind = "Class") =>
        result.ok /\ result.val = building.val

----------------------------------------------------------------------------
(* Claims about the order of the passes *)

\* C22: the set-field pass and the table-field pass commute: after pass 1
\* the two orders fail together, and yield the same item map when they do
\* not fail.
C22_FieldPassesCommute ==
    pc = "either_first" =>
        /\ result.ok <=> parsed.ok
        /\ result.ok => result.val = parsed.val

\* Both orders have run on a file where each pass changed an item: the
\* table "b" got a field and the enum "c" got a value.
C22_Witness ==
    /\ pc = "either_first"
    /\ result.ok
    /\ parsed.ok
    /\ \E t, e \in DOMAIN ItemsBefore :
          /\ ItemsBefore[t].inner.kind = "Table"
          /\ ItemsBefore[e].inner.kind = "Enum"
          /\ parsed.val.items[t] # ItemsBefore[t]
          /\ parsed.val.items[e] # ItemsBefore[e]

\* C23 as stated: running merge_class_tables before the set-field and
\* table-field passes gives the outcome of running it after them: failure
\* in both orders, or the same final item map.
C23_MergeOrderIndependent ==
    pc = "merge_either" =>
        /\ result.ok <=> parsed.ok
        /\ result.ok => result.val = parsed.val

\* C23, amended: when the order of build_docs (merge last) succeeds, the
\* order with the merge first succeeds too and gives the same item map.
C23_MergeFirstAgreesWhenMergeLastSucceeds ==
    pc = "merge_either" => (result.ok => (parsed.ok /\ parsed.val = result.val))

\* Both orders have run on a file where a field was set on a table that
\* the merge removes: the table is gone from both maps.
C23_Witness ==
    /\ pc = "merge_either"
    /\ result.ok
    /\ parsed.ok
    /\ \E t \in MatchedTables(ItemsBefore) :
          /\ t \notin DOMAIN result.val.items
          /\ t \notin DOMAIN parsed.val.items
          /\ \E i \in DOMAIN source_file.definitions :
                /\ head(source_file.definitions[i]).define_type = "setfield"
                /\ splitn2(source_file.definitions[i].name, ".")[1] = t

----------------------------------------------------------------------------
(* Claims about what the passes leave alone *)

\* The item `after` is the item `before` but for entries inserted or
\* replaced in the fields and functions of a Table or the fields of an Enum.
SameButMembers(before, after) ==
    /\ after.name = before.name
    /\ after.description = before.description
    /\ after.range = before.range
    /\ after.inner.kind = before.inner.kind
    /\ CASE before.inner.kind = "Table" ->
               /\ after.inner.view = before.inner.view
               /\ DOMAIN before.inner.fields \subseteq DOMAIN after.inner.fields
               /\ DOMAIN before.inner.functions \subseteq DOMAIN after.inner.functions
         [] before.inner.kind = "Enum" ->
               DOMAIN before.inner.fields \subseteq DOMAIN after.inner.fields
         [] OTHER -> after = before

\* C27: the set-field and table-field passes, in either order, keep the set
\* of item names pass 1 produced and every item's name, description, range
\* and kind, changing only Table.fields, Table.functions and Enum.fields;
\* with the merge pass after them the only items gone are Tables.
C27_PassesKeepItemsButMembers ==
    /\ (pc \in {"set_first", "either_first"} /\ result.ok) =>
          /\ DOMAIN result.val.items = DOMAIN ItemsBefore
          /\ \A k \in DOMAIN ItemsBefore : SameButMembers(ItemsBefore[k], result.val.items[k])
    /\ (pc = "either_first" /\ parsed.ok) =>
          /\ DOMAIN parsed.val.items = DOMAIN ItemsBefore
          /\ \A k \in DOMAIN ItemsBefore : SameButMembers(ItemsBefore[k], parsed.val.items[k])
    /\ (pc = "merge_last" /\ result.ok) =>
          /\ DOMAIN result.val.items \subseteq DOMAIN ItemsBefore
          /\ \A k \in DOMAIN ItemsBefore \ DOMAIN result.val.items :
                ItemsBefore[k].inner.kind = "Table"
          /\ \A k \in DOMAIN result.val.items :
                SameButMembers(ItemsBefore[k], result.val.items[k])

\* The three passes have run on a file where the enum got a value and the
\* merge removed the table: the class and the enum are left.
C27_Witness ==
    /\ pc = "merge_last"
    /\ result.ok
    /\ Cardinality(DOMAIN ItemsBefore) = 3
    /\ Cardinality(DOMAIN result.val.items) = 2
    /\ \E e \in DOMAIN result.val.items :
          /\ ItemsBefore[e].inner.kind = "Enum"
          /\ result.val.items[e] # ItemsBefore[e]

----------------------------------------------------------------------------
(* Claims about pass 1 on a file *)

\* DocItem::parse makes an item of the definition d.
ProducesItem(d) == DocItem_parse(d).ok /\ DocItem_parse(d).val.some

\* The places in the file of the definitions named k that make an item.
ProducersOf(k) ==
    { i \in DOMAIN source_file.definitions :
        source_file.definitions[i].name = k /\ ProducesItem(source_file.definitions[i]) }

\* C24: after pass 1 the item under a name is the one parsed from the last
\* definition of that name that makes an item, every item is stored under
\* its own name, and the pass fails only when parsing a definition fails,
\* never for a name used twice.
C24_LastItemOfANameWins ==
    /\ pc = "failed" =>
          \E i \in DOMAIN source_file.definitions : ~DocItem_parse(source_file.definitions[i]).ok
    /\ pc = "fields" =>
          /\ \A i \in DOMAIN source_file.definitions : DocItem_parse(source_file.definitions[i]).ok
          /\ building.ok
          /\ DOMAIN building.val.items =
                { source_file.definitions[i].name :
                    i \in { j \in DOMAIN source_file.definitions :
                               ProducesItem(source_file.definitions[j]) } }
          /\ \A k \in DOMAIN building.val.items :
                /\ building.val.items[k].name = k
                /\ Some(building.val.items[k]) =
                      DocItem_parse(source_file.definitions[MaxOf(ProducersOf(k))]).val

\* A file that defines "a" as a class, then as an enum, then names a
\* set-field record "a": the item "a" is the enum.
C24_Witness ==
    /\ pc = "fields"
    /\ Len(source_file.definitions) = 3
    /\ \A i \in 1..3 : source_file.definitions[i].name = <<"a">>
    /\ head(source_file.definitions[1]).define_type = "doc.class"
    /\ head(source_file.definitions[2]).define_type = "doc.enum"
    /\ head(source_file.definitions[3]).define_type = "setfield"
    /\ building.ok
    /\ building.val.items[<<"a">>].inner.kind = "Enum"

----------------------------------------------------------------------------
(* Claims about the head define *)

\* The places, among the defines of the definition, of those located in
\* the file being built.
SitesInFile ==
    { i \in DOMAIN parse_input.defines : parse_input.defines[i].location.file = DocUris[1] }

\* The first define located in the file being built.
HeadInFile == parse_input.defines[MinOf(SitesInFile)]

\* C25: pass 1 classifies a definition by the first of its defines that
\* belongs to the file: a head of kind SetField, SetIndex, SetMethod,
\* TableField or doc.field makes no item and no error, whatever the later
\* defines are; an item that is made has the variant of the head's kind and
\* the head's range.
C25_HeadDefineClassifies ==
    pc = "head_parsed" =>
        /\ SitesInFile # {}
        /\ HeadInFile.define_type \in {"setfield", "setindex", "setmethod", "tablefield", "doc.field"}
              => parsed = Ok(None)
        /\ (parsed.ok /\ parsed.val.some) =>
              /\ parsed.val.val.range = HeadInFile.location.range
              /\ parsed.val.val.inner.kind =
                    (CASE HeadInFile.define_type = "doc.class" -> "Class"
                       [] HeadInFile.define_type = "doc.enum"  -> "Enum"
                       [] HeadInFile.define_type = "doc.alias" -> "TypeAlias"
                       [] HeadInFile.define_type = "setglobal" -> "Table"
                       [] OTHER -> "none")

\* A definition defined in this file by a SetField and after it as a class:
\* no item is made of it.
C25_Witness ==
    /\ pc = "head_parsed"
    /\ SitesInFile = {1, 2}
    /\ parse_input.definition_type = "type"
    /\ parse_input.defines[1].define_type = "setfield"
    /\ parse_input.defines[2].define_type = "doc.class"
    /\ parsed = Ok(None)

----------------------------------------------------------------------------
(* Claims about the members of a class *)

\* The entries of a class definition's fields that Class.fields is made of.
PlainFields(definition) ==
    SelectSeq(definition.fields, LAMBDA f :
        /\ f.field_type \in {"doc.field", "setfield"}
        /\ f.extends.extends_type # "function")

\* A type-flavored doc.class definition has been parsed.
ClassParsed ==
    /\ pc = "parsed"
    /\ head(parse_input).define_type = "doc.class"
    /\ parse_input.definition_type = "type"

\* C26 as stated: Class::parse loses no member: the sizes of Class.fields and
\* Class.methods add up to the number of entries of the fields list.
C26_NoMemberLost ==
    ClassParsed =>
        /\ parsed.ok
        /\ Len(parsed.val.val.inner.fields) + Len(parsed.val.val.inner.methods)
              = Len(parse_input.fields)

\* C26, amended: Class::parse fails when a SetMethod entry is not
\* function-typed; otherwise Class.fields holds, in order, the doc.field and
\* SetField entries that are not function-typed, Class.methods has one
\* entry for each SetMethod and each function-typed SetField, and a
\* function-typed doc.field is in neither: the sizes add up to the number
\* of the other entries.
C26_MembersButFunctionDocFields ==
    ClassParsed =>
        IF \E i \in DOMAIN parse_input.fields :
              /\ parse_input.fields[i].field_type = "setmethod"
              /\ parse_input.fields[i].extends.extends_type # "function"
        THEN ~parsed.ok
        ELSE /\ parsed.ok
             /\ Len(parsed.val.val.inner.fields) = Len(PlainFields(parse_input))
             /\ \A i \in DOMAIN parsed.val.val.inner.fields :
                   /\ parsed.val.val.inner.fields[i].name = PlainFields(parse_input)[i].name
                   /\ parsed.val.val.inner.fields[i].lua_type = PlainFields(parse_input)[i].extends.view
             /\ Len(parsed.val.val.inner.methods) = Len(MethodFields(parse_input))
             /\ Len(parsed.val.val.inner.fields) + Len(parsed.val.val.inner.methods)
                   = Len(SelectSeq(parse_input.fields, LAMBDA f :
                           ~(f.field_type = "doc.field" /\ f.extends.extends_type = "function")))

\* A class with a function-typed doc.field and a string SetField has been
\* parsed: it has one field and no method.
C26_Witness ==
    /\ ClassParsed
    /\ Len(parse_input.fields) = 2
    /\ parse_input.fields[1].field_type = "doc.field"
    /\ parse_input.fields[1].extends.extends_type = "function"
    /\ parse_input.fields[2].field_type = "setfield"
    /\ parse_input.fields[2].extends.extends_type = "string"
    /\ parsed.ok
    /\ Len(parsed.val.val.inner.fields) = 1
    /\ parsed.val.val.inner.methods = <<>>

====
